---- MODULE Spec2Model ----
(***************************************************************************)
(* The two gesture engines of the repository as state machines.            *)
(*                                                                         *)
(*   - GestureController.process / analyzeHand   (src/src/utils.js 616-870)*)
(*   - GestureController.update  / #updateSingleHand /                     *)
(*     #evaluateGlobalGestures / #computeTwoHandGesture (src/src/gestures.js)*)
(*                                                                         *)
(* Numbers.  JavaScript numbers are modelled exactly where the code only   *)
(* compares, adds, subtracts or divides them:                              *)
(*   - timestamps are integers (milliseconds);                             *)
(*   - normalised lengths and coordinates are integers in hundredths       *)
(*     (a pinch ratio of 0.28 is 28, a landmark x of 0.37 is 37);          *)
(*   - a quotient is a reduced fraction [n, d]; d = 0 stands for the IEEE  *)
(*     results of a division by zero (n = 1: Infinity, n = -1: -Infinity,  *)
(*     n = 0: NaN);                                                        *)
(*   - a Euclidean distance is carried as its square (Math.hypot is        *)
(*     injective and monotone on squares), and so is a ratio of distances; *)
(*   - Math.atan2 is carried as the reduced direction <<dy, dx>> it is the *)
(*     angle of; a difference of two angles is zero iff the directions are *)
(*     equal.                                                              *)
(* A hand of a frame is given by the quantities analyzeHand derives from   *)
(* its 21 landmarks (pinch ratio, mean fingertip extension, index tip,     *)
(* palm centre, thumb angle test), not by the landmarks themselves.        *)
(***************************************************************************)
EXTENDS Integers, Sequences, FiniteSets, TLC

\* ---------------------------------------------------------------- constants
\* src/src/utils.js 605-612 (hundredths where the source has a fraction)
PINCH_ON == 28
PINCH_OFF == 36
DOUBLE_PINCH_WINDOW == 320
PALM_OPEN_THRESHOLD == 280
FIST_THRESHOLD == 125
HELP_HOLD_TIME == 1000
SWIPE_VELOCITY == 70

\* ------------------------------------------------------------------ bounds
\* Frames are accepted while the clock has not passed MaxTime (ms).
MaxTime == 1000

\* ------------------------------------------------------------- JS numbers
Null == [null |-> TRUE]

Abs(a) == IF a < 0 THEN -a ELSE a

Sign(a) == IF a < 0 THEN -1 ELSE IF a > 0 THEN 1 ELSE 0

RECURSIVE GCD(_, _)
GCD(a, b) == IF b = 0 THEN a ELSE GCD(b, a % b)

\* n / d as JavaScript evaluates it, reduced.
Div(n, d) ==
  IF d = 0 THEN [n |-> Sign(n), d |-> 0]
  ELSE LET g == GCD(Abs(n), Abs(d))
           s == Sign(d)
       IN  [n |-> s * (n \div g), d |-> s * (d \div g)]

Num(k) == [n |-> k, d |-> 1]

IsFinite(q) == q.d # 0

\* Math.abs(q) > k ; every comparison with NaN is false.
AbsGreater(q, k) ==
  IF q.d = 0 THEN q.n # 0 ELSE Abs(q.n) > k * q.d

\* q > 0
Positive(q) == q.n > 0

\* clamp(value, min, max) == Math.min(Math.max(value, min), max)
Max2(a, b) == IF a > b THEN a ELSE b

Min2(a, b) == IF a < b THEN a ELSE b

clamp(value, min, max) == Min2(Max2(value, min), max)

Point(px, py) == [x |-> px, y |-> py]

\* distance2D(a, b), as its square
distance2D(a, b) ==
  LET dx == a.x - b.x
      dy == a.y - b.y
  IN  dx * dx + dy * dy

\* Math.atan2(dy, dx), as the reduced direction; atan2(0, 0) = 0 = atan2(0, 1)
atan2(dy, dx) ==
  IF dy = 0 /\ dx = 0 THEN <<0, 1>>
  ELSE LET g == GCD(Abs(dy), Abs(dx)) IN <<dy \div g, dx \div g>>

ZeroAngle == [to |-> <<0, 1>>, from |-> <<0, 1>>]

\* angle - base
AngleDiff(angle, base) ==
  IF angle = base THEN ZeroAngle ELSE [to |-> angle, from |-> base]

\* ------------------------------------------------------------------- state
VARIABLES
  engine,              \* which GestureController the app instantiates
  gesture,             \* the gesture the user exercises in the session
  now,                 \* timestamp of the last frame handed to the engine
  hands,               \* the hands of that frame
  \* GestureController of src/src/utils.js (process)
  handStates, tool, twoHandSession,
  lastPanelsToggle, lastPauseToggle, lastScreenshot, lastShapeSwipe,
  events,              \* the bundle process returned for the last frame
  \* GestureController of src/src/gestures.js (update)
  handStatesU,         \* its handStates: <<id, state>> pairs in insertion order
  lastGlobalOpenPalmTime, openPalmHoldTriggered, lastFistToggle, lastThumbsUp,
  lastSwipe, twoHandCache, lastOpenPalm,
  result,              \* the result update returned for the last frame
  \* one OneEuroFilter: of utils.js beside process, of scene3d.js beside update
  filter,
  filterIn,            \* the value and timestamp of the last call of filter
  filterOut,           \* what that call returned: [finite, v]
  \* the app around the controller: App (README.md) or AirHandsApp (part_000)
  paused,              \* App.cameraPaused, AirHandsApp.isPaused
  camera,              \* the hands in front of the camera at the app's last
                       \* frame callback, processed or not
  \* the canvas of the app: DrawingCanvas (part_000) or AirDraw (draw.js)
  canvas,              \* [paths, redoStack, currentStroke, made]
  currentDrawingHand,  \* AirHandsApp.currentDrawingHand
  \* the Scene3D of the app (scene3d.js)
  sceneScale,          \* a component of targetScale, or scaleFactor
  \* the event-emitting HandTracker (hand-tracker.js)
  tracker,
  history              \* what the claims need of the past (not program state)

processVars ==
  <<handStates, tool, twoHandSession, lastPanelsToggle, lastPauseToggle,
    lastScreenshot, lastShapeSwipe, events>>

updateVars ==
  <<handStatesU, lastGlobalOpenPalmTime, openPalmHoldTriggered, lastFistToggle,
    lastThumbsUp, lastSwipe, twoHandCache, lastOpenPalm, result>>

filterVars == <<filter, filterIn, filterOut>>

appVars == <<paused, camera>>

canvasVars == <<canvas, currentDrawingHand>>

sceneVars == <<sceneScale>>

trackerVars == <<tracker>>

\* what surrounds the controller and the app's pause flag
outerVars == <<canvasVars, sceneVars, trackerVars>>

vars ==
  <<engine, gesture, now, hands, processVars, updateVars, filterVars, appVars,
    outerVars, history>>

\* ------------------------------------------------ process engine: analyzeHand
\* The state analyzeHand creates for a hand index it has not seen
\* (utils.js 628-642).  pinchRatio, isOpenPalm, isFist and indexTip are
\* assigned by every analyzeHand call before anything reads them.
freshState ==
  [pinch |-> FALSE, pinchStartTime |-> 0, lastPinchPosition |-> Null,
   openPalmStart |-> 0, fist |-> FALSE, lastCenter |-> Null,
   thumbsUp |-> FALSE, swipeLastTime |-> 0, swipeVelocity |-> Num(0),
   lastPinchRelease |-> 0, pendingDoublePinch |-> FALSE, newPinch |-> FALSE,
   quickHelpShown |-> FALSE,
   pinchRatio |-> 0, isOpenPalm |-> FALSE, isFist |-> FALSE, indexTip |-> Null]

\* this.handStates.get(hand.index) || { ... }
getState(states, index) ==
  IF index \in DOMAIN states THEN states[index] ELSE freshState

\* utils.js 659: !state.pinch && pinchRatio < PINCH_ON
pinchStarts(state, pinchRatio) == ~state.pinch /\ pinchRatio < PINCH_ON

\* (mutant of pinchEnds: one threshold, the pinch ends as soon as the ratio is
\* not below PINCH_ON)
pinchEndsOneThreshold(state, pinchRatio) == state.pinch /\ pinchRatio >= PINCH_ON

\* utils.js 664: state.pinch && pinchRatio > PINCH_OFF
pinchEnds(state, pinchRatio) == state.pinch /\ pinchRatio > PINCH_OFF

\* utils.js 668: the release completes a double pinch
isDoublePinch(state, timestamp) ==
  /\ timestamp - state.pinchStartTime < DOUBLE_PINCH_WINDOW
  /\ timestamp - state.lastPinchRelease < DOUBLE_PINCH_WINDOW

\* utils.js 659-674
updatePinch(state, pinchRatio, timestamp) ==
  IF pinchStarts(state, pinchRatio)
  THEN [state EXCEPT !.pinch = TRUE, !.pinchStartTime = timestamp,
                     !.lastPinchPosition = Null, !.newPinch = TRUE]
  ELSE IF pinchEnds(state, pinchRatio)
  THEN [state EXCEPT !.pinch = FALSE, !.lastPinchPosition = Null,
                     !.pendingDoublePinch =
                        IF isDoublePinch(state, timestamp) THEN TRUE ELSE @,
                     !.lastPinchRelease = timestamp, !.pinchStartTime = 0,
                     !.newPinch = FALSE]
  ELSE state

\* utils.js 680-691: the open-palm hold timer
updateOpenPalm(state, isOpenPalm, timestamp) ==
  IF isOpenPalm
  THEN IF state.openPalmStart = 0
       THEN [state EXCEPT !.openPalmStart = timestamp, !.quickHelpShown = FALSE]
       ELSE state
  ELSE [state EXCEPT !.openPalmStart = 0, !.quickHelpShown = FALSE]

\* utils.js 706-712: palm-centre velocity; dt = (...) / 1000 || 0.016
updateSwipe(state, cx, timestamp) ==
  LET dtMs == IF timestamp - state.swipeLastTime = 0 THEN 16
              ELSE timestamp - state.swipeLastTime
      s1 == IF state.lastCenter # Null
            THEN [state EXCEPT
                    !.swipeVelocity = Div((cx - state.lastCenter.x) * 1000, dtMs)]
            ELSE state
  IN  [s1 EXCEPT !.lastCenter = [x |-> cx], !.swipeLastTime = timestamp]

\* (mutant of thumbsUpOf: the raised thumb alone counts)
thumbsUpAnyHand(thumbExtended, isFist) == thumbExtended

\* utils.js 719: state.thumbsUp = thumbExtended && isFist
thumbsUpOf(thumbExtended, isFist) == thumbExtended /\ isFist

\* utils.js 627-731.  hand = [ratio, ext, tip, cx, thumbExtended]:
\*   ratio = pinchRatio, ext = distanceAvg, tip = landmarks[8],
\*   cx = palmCenter.x, thumbExtended = thumbAngle < THUMBS_UP_ANGLE.
analyzeHand(states, index, hand, timestamp) ==
  LET state0 == getState(states, index)
      isOpenPalm == hand.ext > PALM_OPEN_THRESHOLD
      isFist == hand.ext < FIST_THRESHOLD
      s1 == updatePinch(state0, hand.ratio, timestamp)
      s2 == updateOpenPalm(s1, isOpenPalm, timestamp)
      s3 == updateSwipe([s2 EXCEPT !.fist = isFist], hand.cx, timestamp)
  IN  [s3 EXCEPT !.thumbsUp = thumbsUpOf(hand.thumbExtended, isFist),
                 !.pinchRatio = hand.ratio,
                 !.isOpenPalm = isOpenPalm,
                 !.isFist = isFist,
                 !.indexTip = hand.tip]

\* ---------------------------------------------------- process engine: process
\* (mutant of emptyEvents: the bundle starts as a live stroke)
activeEvents(currentTool) ==
  [drawing |-> [active |-> TRUE, point |-> Null, pressure |-> Num(0),
                tool |-> currentTool, justStarted |-> FALSE, justEnded |-> FALSE],
   scene   |-> [rotate |-> [x |-> 0, y |-> 0, z |-> ZeroAngle],
                scale |-> Num(1),
                translate |-> [x |-> Num(0), y |-> Num(0)],
                activeHands |-> 0, reset |-> FALSE],
   global  |-> [togglePanels |-> FALSE, pauseCamera |-> FALSE,
                screenshot |-> FALSE, quickHelp |-> FALSE, cycleShape |-> "null"],
   info    |-> [pinchHands |-> 0]]

\* utils.js 734-760: the bundle as process first builds it
emptyEvents(currentTool) ==
  [drawing |-> [active |-> FALSE, point |-> Null, pressure |-> Num(0),
                tool |-> currentTool, justStarted |-> FALSE, justEnded |-> FALSE],
   scene   |-> [rotate |-> [x |-> 0, y |-> 0, z |-> ZeroAngle],
                scale |-> Num(1),
                translate |-> [x |-> Num(0), y |-> Num(0)],
                activeHands |-> 0, reset |-> FALSE],
   global  |-> [togglePanels |-> FALSE, pauseCamera |-> FALSE,
                screenshot |-> FALSE, quickHelp |-> FALSE, cycleShape |-> "null"],
   info    |-> [pinchHands |-> 0]]

\* utils.js 764: the positions (1-based) of analyzed.filter(state => state.pinch)
pinchHands(analyzed) == {i \in DOMAIN analyzed : analyzed[i].pinch}

\* (mutant of pressureOf: the strength is not clamped)
pressureUnclamped(pinchRatio) == Div(PINCH_ON - pinchRatio, PINCH_ON)

\* utils.js 778: clamp(1 - state.pinchRatio / PINCH_ON, 0, 1)
pressureOf(pinchRatio) == Div(clamp(PINCH_ON - pinchRatio, 0, PINCH_ON), PINCH_ON)

\* (mutant of isSingle: one pinching hand or more)
isSingleOrMore(ph) == Cardinality(ph) >= 1

\* utils.js 767: pinchHands.length === 1
isSingle(ph) == Cardinality(ph) = 1

\* (mutant of clearNewPinch: the flag is left set)
keepNewPinch(state) == state

\* utils.js 771-774: the new-pinch flag is consumed by the frame that reports it
clearNewPinch(state) == [state EXCEPT !.newPinch = FALSE]

\* utils.js 767-795: single-hand drawing and rotation, or the end of a stroke.
\* c = [analyzed, events]
singleHand(c) ==
  LET ph == pinchHands(c.analyzed)
  IN
  IF isSingle(ph)
  THEN LET i == CHOOSE j \in ph : \A k \in ph : j <= k
           state == c.analyzed[i]
           currentPoint == state.indexTip
           prev == state.lastPinchPosition
           drawing == [c.events.drawing EXCEPT
                         !.justStarted = state.newPinch,
                         !.active = TRUE,
                         !.point = currentPoint,
                         !.pressure = pressureOf(state.pinchRatio)]
           scene == IF prev # Null
                    THEN [c.events.scene EXCEPT
                            !.rotate.y = (currentPoint.x - prev.x) * (-220),
                            !.rotate.x = (currentPoint.y - prev.y) * (-180),
                            !.activeHands = 1]
                    ELSE c.events.scene
       IN  [analyzed |-> [c.analyzed EXCEPT
                            ![i] = [clearNewPinch(state) EXCEPT
                                      !.lastPinchPosition = currentPoint]],
            events |-> [c.events EXCEPT !.drawing = drawing, !.scene = scene]]
  ELSE IF Cardinality(ph) = 0
  THEN [analyzed |-> [i \in DOMAIN c.analyzed |->
                        [c.analyzed[i] EXCEPT !.lastPinchPosition = Null]],
        events |-> [c.events EXCEPT !.drawing.justEnded =
                      \E i \in DOMAIN c.analyzed :
                         c.analyzed[i].lastPinchPosition # Null]]
  ELSE c

\* utils.js 805: the centre of the two pinch points, carried doubled
centerOf(p1, p2) == Point(p1.x + p2.x, p1.y + p2.y)

\* utils.js 809-814: no session yet, the frame seeds it
seedSession(session, center, distance, angle, scene) ==
  [session |-> [baseDistance |-> distance, lastCenter |-> center,
                baseAngle |-> angle],
   scene |-> scene]

\* (mutant of nextBaseDistance: the distance of the seeding frame is kept)
keepBaseDistance(session, distance) == session.baseDistance

\* utils.js 822: this.twoHandSession.baseDistance = distance
nextBaseDistance(session, distance) == distance

\* utils.js 815-825: the deltas against the session, which is then re-seeded
moveSession(session, center, distance, angle, scene) ==
  [session |-> [baseDistance |-> nextBaseDistance(session, distance),
                lastCenter |-> center,
                baseAngle |-> angle],
   scene |-> [scene EXCEPT
                !.scale = Div(distance, session.baseDistance),
                !.translate = [x |-> Div(center.x - session.lastCenter.x, 2),
                               y |-> Div(center.y - session.lastCenter.y, 2)],
                !.rotate.z = AngleDiff(angle, session.baseAngle),
                !.activeHands = 2]]

\* utils.js 797-828.  Returns [session, scene].
twoHands(analyzed, session, scene) ==
  LET ph == pinchHands(analyzed)
  IN
  IF Cardinality(ph) = 2
  THEN LET l == CHOOSE j \in ph : \A k \in ph : j <= k
           r == CHOOSE j \in ph : \A k \in ph : k <= j
           p1 == analyzed[l].indexTip
           p2 == analyzed[r].indexTip
           center == centerOf(p1, p2)
           distance == distance2D(p1, p2)
           angle == atan2(p2.y - p1.y, p2.x - p1.x)
       IN  IF session = Null
           THEN seedSession(session, center, distance, angle, scene)
           ELSE moveSession(session, center, distance, angle, scene)
  ELSE [session |-> Null, scene |-> scene]

\* (mutant of cooledDown: a frame exactly the cooldown later counts)
cooledDownInclusive(timestamp, last, cooldown) == timestamp - last >= cooldown

\* (mutant of cooledDown: twice the cooldown is waited for)
cooledDownTwice(timestamp, last, cooldown) == timestamp - last > 2 * cooldown

\* a command's cooldown has passed since it last fired (utils.js 837, 850, 856, 861)
cooledDown(timestamp, last, cooldown) == timestamp - last > cooldown

\* utils.js 837: the panel-toggle hold of one hand
panelHold(state, timestamp, last) ==
  /\ cooledDown(timestamp, last, 600)
  /\ state.openPalmStart # 0
  /\ timestamp - state.openPalmStart > 200

\* utils.js 844
helpHold(state, timestamp) ==
  ~state.quickHelpShown /\ timestamp - state.openPalmStart > HELP_HOLD_TIME

\* (mutant of flipTool: a double-pinch leaves the tool alone)
keepTool(current) == current

\* utils.js 832: this.tool === 'draw' ? 'erase' : 'draw'
flipTool(current) == IF current = "draw" THEN "erase" ELSE "draw"

\* utils.js 830-865, the body of analyzed.forEach for the state at position i.
\* g = [analyzed, tool, lastPanelsToggle, lastPauseToggle, lastScreenshot,
\*      lastShapeSwipe, global]
globalStep(g, i, timestamp) ==
  LET st0 == g.analyzed[i]
      toggles == st0.pendingDoublePinch
      tool1 == IF toggles THEN flipTool(g.tool) ELSE g.tool
      st1 == [st0 EXCEPT !.pendingDoublePinch = FALSE]
      panels == st1.isOpenPalm /\ panelHold(st1, timestamp, g.lastPanelsToggle)
      st2 == IF panels
             THEN [st1 EXCEPT !.openPalmStart = timestamp, !.quickHelpShown = FALSE]
             ELSE st1
      help == st2.isOpenPalm /\ helpHold(st2, timestamp)
      st3 == IF help THEN [st2 EXCEPT !.quickHelpShown = TRUE] ELSE st2
      velocityX == st3.swipeVelocity
      swipe == /\ st3.isOpenPalm
               /\ AbsGreater(velocityX, SWIPE_VELOCITY)
               /\ cooledDown(timestamp, g.lastShapeSwipe, 600)
      pause == st3.isFist /\ cooledDown(timestamp, g.lastPauseToggle, 800)
      shot == st3.thumbsUp /\ cooledDown(timestamp, g.lastScreenshot, 1500)
  IN  [analyzed |-> [g.analyzed EXCEPT ![i] = st3],
       tool |-> tool1,
       lastPanelsToggle |-> IF panels THEN timestamp ELSE g.lastPanelsToggle,
       lastPauseToggle |-> IF pause THEN timestamp ELSE g.lastPauseToggle,
       lastScreenshot |-> IF shot THEN timestamp ELSE g.lastScreenshot,
       lastShapeSwipe |-> IF swipe THEN timestamp ELSE g.lastShapeSwipe,
       global |-> [togglePanels |-> g.global.togglePanels \/ panels,
                   pauseCamera |-> g.global.pauseCamera \/ pause,
                   screenshot |-> g.global.screenshot \/ shot,
                   quickHelp |-> g.global.quickHelp \/ help,
                   cycleShape |-> IF swipe
                                  THEN (IF Positive(velocityX) THEN "next" ELSE "prev")
                                  ELSE g.global.cycleShape]]

\* analyzed.forEach(...) from position i on
RECURSIVE globalLoop(_, _, _)
globalLoop(g, i, timestamp) ==
  IF i > Len(g.analyzed) THEN g
  ELSE globalLoop(globalStep(g, i, timestamp), i + 1, timestamp)

\* this.handStates.set(hand.index, state) for every hand of the frame
storeStates(states, analyzed) ==
  [idx \in DOMAIN states \cup {i - 1 : i \in DOMAIN analyzed} |->
     IF idx + 1 \in DOMAIN analyzed THEN analyzed[idx + 1] ELSE states[idx]]

\* utils.js 733-869: process(hands, timestamp); hs[i] is the hand of index i-1.
\* (\E x \in {e} names the value of e once, as a const declaration does.)
process(hs, timestamp) ==
  \E analyzed \in
       {[i \in 1..Len(hs) |-> analyzeHand(handStates, i - 1, hs[i], timestamp)]} :
  \E e0 \in {[emptyEvents(tool) EXCEPT
                !.info.pinchHands = Cardinality(pinchHands(analyzed))]} :
  \E c1 \in {singleHand([analyzed |-> analyzed, events |-> e0])} :
  \E t \in {twoHands(c1.analyzed, twoHandSession, c1.events.scene)} :
  \E g \in {globalLoop([analyzed |-> c1.analyzed, tool |-> tool,
                        lastPanelsToggle |-> lastPanelsToggle,
                        lastPauseToggle |-> lastPauseToggle,
                        lastScreenshot |-> lastScreenshot,
                        lastShapeSwipe |-> lastShapeSwipe,
                        global |-> e0.global], 1, timestamp)} :
      /\ handStates' = storeStates(handStates, g.analyzed)
      /\ tool' = g.tool
      /\ twoHandSession' = t.session
      /\ lastPanelsToggle' = g.lastPanelsToggle
      /\ lastPauseToggle' = g.lastPauseToggle
      /\ lastScreenshot' = g.lastScreenshot
      /\ lastShapeSwipe' = g.lastShapeSwipe
      /\ events' = [c1.events EXCEPT !.scene = t.scene, !.global = g.global,
                                     !.drawing.tool = g.tool]

\* ------------------------------------------ update engine (src/src/gestures.js)
\* Units: screen coordinates in hundredths of a pixel, the normalised pinch
\* distance in thousandths, the finger extension ratio in tenths, a handedness
\* score in thousandths.  The filter's real arithmetic is fixed point: smoothing
\* coefficients in thousandths, quotients rounded down.
\* gestures.js 3-7
PINCH_THRESHOLD == 45
PINCH_RELEASE_THRESHOLD == 65
DOUBLE_PINCH_WINDOW_U == 280
PALM_HOLD_DURATION == 900
SWIPE_VELOCITY_THRESHOLD == 60

\* scene3d.js 498-509: new OneEuroFilter({ minCutoff, beta }); seeded stands for
\* prevTimestamp != null.  minCutoff, dCutoff in mHz, beta in thousandths.
newOneEuroFilter(minCutoff, beta) ==
  [minCutoff |-> minCutoff, beta |-> beta, dCutoff |-> 1000,
   seeded |-> FALSE, prevTimestamp |-> 0, prevValue |-> 0, prevDerivative |-> 0]

\* scene3d.js 511-514: alpha(cutoff, dt) = 1 / (1 + tau / dt), tau = 1 / (2 pi cutoff);
\* in thousandths, for cutoff in mHz and dt in ms (1 / (2 pi) s = 159155 us)
filterAlpha(cutoff, dtMs) == (1000 * dtMs) \div (dtMs + (159155 \div cutoff))

\* (mutant of seedFilter: the first call answers 0)
seedFilterSilent(f, value, timestamp) ==
  [f |-> [f EXCEPT !.seeded = TRUE, !.prevTimestamp = timestamp,
                   !.prevValue = value],
   out |-> 0]

\* scene3d.js 517-521: the first call records the value and returns it
seedFilter(f, value, timestamp) ==
  [f |-> [f EXCEPT !.seeded = TRUE, !.prevTimestamp = timestamp,
                   !.prevValue = value],
   out |-> value]

\* (mutant of blend: the share of the previous value is dropped)
blendNewOnly(alpha, value, prev) == (alpha * value) \div 1000

\* scene3d.js 531, 535: alpha * value + (1 - alpha) * prev, alpha in thousandths
blend(alpha, value, prev) == (alpha * value + (1000 - alpha) * prev) \div 1000

\* scene3d.js 516-539: filter(value, timestamp).  Returns [f, out].
oneEuroFilter(f, value, timestamp) ==
  IF ~f.seeded
  THEN seedFilter(f, value, timestamp)
  ELSE LET dtMs == timestamp - f.prevTimestamp
           f1 == [f EXCEPT !.prevTimestamp = timestamp]
       IN  IF dtMs <= 0
           THEN [f |-> f1, out |-> f.prevValue]
           ELSE LET dx == ((value - f.prevValue) * 1000) \div dtMs
                    alphaDerivative == filterAlpha(f.dCutoff, dtMs)
                    derivative == blend(alphaDerivative, dx, f.prevDerivative)
                    cutoff == f.minCutoff + (f.beta * Abs(derivative)) \div 100
                    alphaValue == filterAlpha(cutoff, dtMs)
                    filtered == blend(alphaValue, value, f.prevValue)
                IN  [f |-> [f1 EXCEPT !.prevDerivative = derivative,
                                      !.prevValue = filtered],
                     out |-> filtered]

\* ---------------------------- OneEuroFilter of src/src/utils.js (lines 26-66)
\* The same fixed point.  finite = FALSE stands for a filter whose xPrev and
\* dxPrev are Infinity or NaN; every later result is then not finite either.
\* utils.js 27-35
newOneEuroFilterUtils(minCutoff, beta) ==
  [minCutoff |-> minCutoff, beta |-> beta, dCutoff |-> 1000,
   seeded |-> FALSE, lastTime |-> 0, xPrev |-> 0, dxPrev |-> 0, finite |-> TRUE]

\* a / b rounded down, for b of either sign
Quot(a, b) == IF b > 0 THEN a \div b ELSE (-a) \div (-b)

\* utils.js 37-40: alpha(cutoff, dt) in thousandths, for dt # 0 of either sign;
\* the denominator 1 + tau / dt may be 0
alphaDenominator(cutoff, dtMs) == dtMs + (159155 \div cutoff)

alphaUtils(cutoff, dtMs) == Quot(1000 * dtMs, alphaDenominator(cutoff, dtMs))

\* utils.js 3: lerp(a, b, t) = a + (b - a) * t, t in thousandths
lerp(a, b, t) == a + ((b - a) * t) \div 1000

\* utils.js 43-48: the first call
seedFilterUtils(f, value, timestamp) ==
  [f |-> [f EXCEPT !.seeded = TRUE, !.lastTime = timestamp, !.xPrev = value,
                   !.dxPrev = 0],
   out |-> [finite |-> TRUE, v |-> value]]

\* the filter and the result once a quotient was not finite
poisoned(f) == [f |-> [f EXCEPT !.finite = FALSE],
                out |-> [finite |-> FALSE, v |-> 0]]

\* utils.js 42-65: filter(value, timestamp).  Returns [f, out], out = [finite, v].
\* With dt = 0, dx is an Infinity or NaN and alpha(., 0) is 0, so that dxHat,
\* the cutoff, alpha and xHat are NaN.
oneEuroFilterUtils(f, value, timestamp) ==
  IF ~f.seeded
  THEN seedFilterUtils(f, value, timestamp)
  ELSE LET dtMs == timestamp - f.lastTime
           f1 == [f EXCEPT !.lastTime = timestamp]
       IN  IF ~f.finite \/ dtMs = 0 \/ alphaDenominator(f.dCutoff, dtMs) = 0
           THEN poisoned(f1)
           ELSE LET dx == Quot((value - f.xPrev) * 1000, dtMs)
                    alphaD == alphaUtils(f.dCutoff, dtMs)
                    dxHat == lerp(f.dxPrev, dx, alphaD)
                    cutoff == f.minCutoff + (f.beta * Abs(dxHat)) \div 100
                IN  IF alphaDenominator(cutoff, dtMs) = 0
                    THEN poisoned(f1)
                    ELSE LET alpha == alphaUtils(cutoff, dtMs)
                             xHat == lerp(f.xPrev, value, alpha)
                         IN  [f |-> [f1 EXCEPT !.xPrev = xHat, !.dxPrev = dxHat],
                              out |-> [finite |-> TRUE, v |-> xHat]]

\* gestures.js 9-33.  Of orientation only roll is kept, of palmCenter and
\* velocity only x (nothing reads the rest); palmNormal is never read.
defaultHandState(handedness) ==
  [handedness |-> handedness, pinch |-> FALSE, pinchStrength |-> Num(0),
   pinchPoint |-> Null,
   pinchFilterX |-> newOneEuroFilter(1200, 10),
   pinchFilterY |-> newOneEuroFilter(1200, 10),
   pinchFilterZ |-> newOneEuroFilter(1200, 10),
   lastPinchTime |-> 0, lastPinchRelease |-> 0, lastDoublePinchTime |-> 0,
   events |-> <<>>, orientation |-> [roll |-> 0],
   palmCenter |-> Null, previousPalmCenter |-> Null,
   velocity |-> [x |-> Num(0)], lastTimestamp |-> 0,
   isOpenPalm |-> FALSE, isFist |-> FALSE, isThumbsUp |-> FALSE]

\* score.toFixed(2): a score in thousandths rounded to hundredths
toFixed2(score) == (score + 5) \div 10

\* gestures.js 63: hand.handedness + "-" + hand.score.toFixed(2)
handId(hand) == <<hand.handedness, toFixed2(hand.score)>>

\* gestures.js 115-136: the smoothed palm centre and its velocity
updatePalm(state, palmRaw, timestamp) ==
  LET center == IF state.palmCenter = Null THEN [x |-> palmRaw]
                ELSE [x |-> (state.palmCenter.x * 6 + palmRaw * 4) \div 10]
      dtMs == timestamp - state.lastTimestamp
      previous == IF state.previousPalmCenter = Null THEN center.x
                  ELSE state.previousPalmCenter.x
      velocity == IF state.lastTimestamp # 0 /\ dtMs > 0
                  THEN [x |-> Div((center.x - previous) * 1000, dtMs)]
                  ELSE state.velocity
  IN  [state EXCEPT !.palmCenter = center, !.velocity = velocity,
                    !.previousPalmCenter = center, !.lastTimestamp = timestamp]

\* gestures.js 143
pinchStartsU(state, normalizedPinch) ==
  ~state.pinch /\ normalizedPinch < PINCH_THRESHOLD

\* gestures.js 153
pinchEndsU(state, normalizedPinch) ==
  state.pinch /\ normalizedPinch > PINCH_RELEASE_THRESHOLD

\* gestures.js 146: the pinch start completes a double pinch
isDoublePinchU(state, timestamp) ==
  timestamp - state.lastPinchRelease < DOUBLE_PINCH_WINDOW_U

\* gestures.js 142-157
updatePinchU(state, normalizedPinch, timestamp) ==
  IF pinchStartsU(state, normalizedPinch)
  THEN IF isDoublePinchU(state, timestamp)
       THEN [state EXCEPT !.pinch = TRUE, !.lastPinchTime = timestamp,
                          !.events = @ \o <<"double-pinch", "pinch-start">>,
                          !.lastDoublePinchTime = timestamp]
       ELSE [state EXCEPT !.pinch = TRUE, !.lastPinchTime = timestamp,
                          !.events = Append(@, "pinch-start")]
  ELSE IF pinchEndsU(state, normalizedPinch)
  THEN [state EXCEPT !.pinch = FALSE, !.lastPinchRelease = timestamp,
                     !.events = Append(@, "pinch-end")]
  ELSE state

\* (mutant of releasedPoint: the last pinch point is kept)
keptPoint(state) == state.pinchPoint

\* gestures.js 166-168: state.pinchPoint = null while the hand does not pinch
releasedPoint(state) == Null

\* gestures.js 159-168: the strength, and the filtered pinch point while pinching
updatePinchPoint(state, normalizedPinch, indexTip, timestamp) ==
  LET s1 == [state EXCEPT !.pinchStrength =
               Div(clamp(PINCH_THRESHOLD - normalizedPinch, 0, PINCH_THRESHOLD),
                   PINCH_THRESHOLD)]
      fx == oneEuroFilter(state.pinchFilterX, indexTip.x, timestamp)
      fy == oneEuroFilter(state.pinchFilterY, indexTip.y, timestamp)
      fz == oneEuroFilter(state.pinchFilterZ, indexTip.z, timestamp)
  IN  IF state.pinch
      THEN [s1 EXCEPT !.pinchFilterX = fx.f, !.pinchFilterY = fy.f,
                      !.pinchFilterZ = fz.f,
                      !.pinchPoint = [x |-> fx.out, y |-> fy.out, z |-> fz.out]]
      ELSE [s1 EXCEPT !.pinchPoint = releasedPoint(state)]

\* gestures.js 107-205: #updateSingleHand(hand, state, timestamp).
\* hand = [handedness, score, pinch, tip, palm, roll, ext, thumbsUp]:
\*   pinch = normalizedPinch, tip = screenLandmarks[8], palm = palmCenterRaw.x,
\*   roll = atan2 of wrist -> middle MCP (hundredths of a degree),
\*   ext = totalExtension / (palmSize || 1), thumbsUp = the isThumbsUp test.
updateSingleHand(hand, state, timestamp) ==
  LET s1 == updatePalm(state, hand.palm, timestamp)
      s2 == updatePinchU(s1, hand.pinch, timestamp)
      s3 == updatePinchPoint(s2, hand.pinch, hand.tip, timestamp)
  IN  [s3 EXCEPT !.orientation = [roll |-> hand.roll],
                 !.isOpenPalm = hand.ext > 56,
                 !.isFist = hand.ext < 31,
                 !.isThumbsUp = hand.thumbsUp]

\* this.handStates (a Map) as <<id, state>> pairs in insertion order
hasState(map, id) == \E k \in DOMAIN map : map[k].id = id

stateOf(map, id) == map[CHOOSE k \in DOMAIN map : map[k].id = id].state

putState(map, id, state) ==
  [k \in DOMAIN map |-> IF map[k].id = id THEN [id |-> id, state |-> state]
                        ELSE map[k]]

\* gestures.js 62-82, the body of the loop over the frame's hands.
\* acc = [map, hands, ids]: handStates, result.hands, and the ids whose states
\* result._states refers to.
updateHand(acc, hand, timestamp) ==
  LET id == handId(hand)
      map0 == IF hasState(acc.map, id) THEN acc.map
              ELSE Append(acc.map,
                          [id |-> id, state |-> defaultHandState(hand.handedness)])
      state == updateSingleHand(hand, stateOf(map0, id), timestamp)
  IN  [map |-> putState(map0, id, [state EXCEPT !.events = <<>>]),
       hands |-> Append(acc.hands,
                   [handedness |-> hand.handedness, pinch |-> state.pinch,
                    pinchPoint |-> state.pinchPoint,
                    pinchStrength |-> state.pinchStrength,
                    palmCenter |-> state.palmCenter, velocity |-> state.velocity,
                    orientation |-> state.orientation, events |-> state.events]),
       ids |-> Append(acc.ids, id)]

RECURSIVE updateLoop(_, _, _, _)
updateLoop(acc, hs, i, timestamp) ==
  IF i > Len(hs) THEN acc
  ELSE updateLoop(updateHand(acc, hs[i], timestamp), hs, i + 1, timestamp)

\* (mutant of removeStale: the states of absent hands stay)
keepStale(map, ids) == map

\* gestures.js 84-89: remove stale hands
removeStale(map, ids) ==
  SelectSeq(map, LAMBDA e : \E k \in DOMAIN ids : ids[k] = e.id)

\* String.prototype.toLowerCase on a handedness label
toLowerCase(handedness) ==
  CASE handedness = "Left" -> "left"
    [] handedness = "Right" -> "right"
    [] OTHER -> handedness

\* a command's cooldown has passed since it last fired (gestures.js 226, 232, 244)
cooledDownU(timestamp, last, cooldown) == timestamp - last > cooldown

\* gestures.js 238-250: the swipe of the first "left" hand, or "null"
swipeOf(resultHands, states) ==
  LET lefts == {k \in DOMAIN resultHands :
                  toLowerCase(resultHands[k].handedness) = "left"}
  IN  IF lefts = {} THEN "null"
      ELSE LET leftState == states[CHOOSE k \in lefts : \A j \in lefts : k <= j]
               velocityX == leftState.velocity.x
           IN  IF AbsGreater(velocityX, SWIPE_VELOCITY_THRESHOLD) /\ ~leftState.pinch
               THEN (IF Positive(velocityX) THEN "right" ELSE "left")
               ELSE "null"

\* gestures.js 261-267: one toggle-draw-mode per double-pinch event
RECURSIVE drawModeCommands(_, _)
drawModeCommands(resultHands, i) ==
  IF i > Len(resultHands) THEN <<>>
  ELSE LET doubles == SelectSeq(resultHands[i].events,
                                LAMBDA e : e = "double-pinch")
       IN  [k \in DOMAIN doubles |->
              [type |-> "toggle-draw-mode",
               handedness |-> resultHands[i].handedness]]
           \o drawModeCommands(resultHands, i + 1)

\* gestures.js 207-268: #evaluateGlobalGestures(result, timestamp).
\* ctl = the controller's five timers and flags; returns them with the result's
\* openPalm, openPalmHold, fist, thumbsUp, swipe and commands.
evaluateGlobalGestures(ctl, resultHands, states, timestamp) ==
  LET openPalm == \E k \in DOMAIN states : states[k].isOpenPalm
      starts == openPalm /\ ~ctl.openPalmHoldTriggered
                /\ ctl.lastGlobalOpenPalmTime = 0
      openPalmHold == /\ openPalm /\ ~ctl.openPalmHoldTriggered
                      /\ ctl.lastGlobalOpenPalmTime # 0
                      /\ timestamp - ctl.lastGlobalOpenPalmTime > PALM_HOLD_DURATION
      fist == \E k \in DOMAIN states : states[k].isFist
      pause == fist /\ cooledDownU(timestamp, ctl.lastFistToggle, 800)
      thumbsUp == \E k \in DOMAIN states : states[k].isThumbsUp
      shot == thumbsUp /\ cooledDownU(timestamp, ctl.lastThumbsUp, 1200)
      direction == swipeOf(resultHands, states)
      swipe == direction # "null" /\ cooledDownU(timestamp, ctl.lastSwipe, 800)
  IN  [lastGlobalOpenPalmTime |->
         IF ~openPalm THEN 0
         ELSE IF starts THEN timestamp ELSE ctl.lastGlobalOpenPalmTime,
       openPalmHoldTriggered |->
         IF ~openPalm THEN FALSE
         ELSE IF openPalmHold THEN TRUE ELSE ctl.openPalmHoldTriggered,
       lastFistToggle |-> IF pause THEN timestamp ELSE ctl.lastFistToggle,
       lastThumbsUp |-> IF shot THEN timestamp ELSE ctl.lastThumbsUp,
       lastSwipe |-> IF swipe THEN timestamp ELSE ctl.lastSwipe,
       lastOpenPalm |-> openPalm,
       openPalm |-> openPalm, openPalmHold |-> openPalmHold, fist |-> fist,
       thumbsUp |-> shot, swipe |-> IF swipe THEN direction ELSE "null",
       commands |->
         (IF pause THEN <<[type |-> "toggle-pause"]>> ELSE <<>>)
         \o (IF shot THEN <<[type |-> "screenshot"]>> ELSE <<>>)
         \o (IF swipe THEN <<[type |-> "switch-shape", direction |-> direction]>>
             ELSE <<>>)
         \o (IF openPalm /\ ~ctl.lastOpenPalm THEN <<[type |-> "toggle-ui"]>>
             ELSE <<>>)
         \o (IF openPalmHold THEN <<[type |-> "show-help"]>> ELSE <<>>)
         \o drawModeCommands(resultHands, 1)]

\* scene3d.js 542-547: distance(a, b), as its square
distance(a, b) ==
  LET dx == a.x - b.x
      dy == a.y - b.y
      dz == a.z - b.z
  IN  dx * dx + dy * dy + dz * dz

\* gestures.js 275-276: the first state, in insertion order, of that handedness
findByHandedness(map, handedness) ==
  map[CHOOSE k \in DOMAIN map :
        /\ map[k].state.handedness = handedness
        /\ \A j \in DOMAIN map : map[j].state.handedness = handedness => k <= j].state

\* gestures.js 294-307: the deltas against the cache; x || y is y when x is 0
cachedDeltas(cache, center, distanceHands, stateA, stateB) ==
  [scale |-> Div(distanceHands,
                 IF cache.distance # 0 THEN cache.distance ELSE distanceHands),
   translate |-> [x |-> Div(center.x - cache.center.x, 2),
                  y |-> Div(center.y - cache.center.y, 2)],
   rotateZ |-> stateA.orientation.roll - stateB.orientation.roll]

\* gestures.js 294-296: no cache, the identity
noDeltas == [scale |-> Num(1), translate |-> [x |-> Num(0), y |-> Num(0)],
             rotateZ |-> 0]

\* gestures.js 270-317: #computeTwoHandGesture(handA, handB, timestamp).
\* The centre is carried doubled.  Returns [cache, twoHand].
computeTwoHandGesture(map, cache, handA, handB, timestamp) ==
  LET stateA == findByHandedness(map, handA.handedness)
      stateB == findByHandedness(map, handB.handedness)
  IN
  IF ~(stateA.pinch /\ stateB.pinch) THEN [cache |-> Null, twoHand |-> Null]
  ELSE IF stateA.pinchPoint = Null \/ stateB.pinchPoint = Null
  THEN [cache |-> cache, twoHand |-> Null]
  ELSE LET pinchA == stateA.pinchPoint
           pinchB == stateB.pinchPoint
           center == [x |-> pinchA.x + pinchB.x, y |-> pinchA.y + pinchB.y,
                      z |-> pinchA.z + pinchB.z]
           distanceHands == distance(pinchA, pinchB)
           d == IF cache # Null
                THEN cachedDeltas(cache, center, distanceHands, stateA, stateB)
                ELSE noDeltas
       IN  [cache |-> [center |-> center, distance |-> distanceHands,
                       timestamp |-> timestamp],
            twoHand |-> [active |-> TRUE, scale |-> d.scale,
                         translate |-> d.translate, rotateZ |-> d.rotateZ,
                         center |-> center]]

\* gestures.js 48-58: the result as update first builds it
emptyResult ==
  [hands |-> <<>>, commands |-> <<>>, openPalm |-> FALSE, openPalmHold |-> FALSE,
   fist |-> FALSE, thumbsUp |-> FALSE, swipe |-> "null", twoHand |-> Null]

\* gestures.js 47-105: update(hands, timestamp)
update(hs, timestamp) ==
  \E acc \in {updateLoop([map |-> handStatesU, hands |-> <<>>, ids |-> <<>>],
                         hs, 1, timestamp)} :
  \E map \in {removeStale(acc.map, acc.ids)} :
  \E states \in {[k \in DOMAIN acc.ids |-> stateOf(map, acc.ids[k])]} :
  \E g \in {evaluateGlobalGestures(
              [lastGlobalOpenPalmTime |-> lastGlobalOpenPalmTime,
               openPalmHoldTriggered |-> openPalmHoldTriggered,
               lastFistToggle |-> lastFistToggle, lastThumbsUp |-> lastThumbsUp,
               lastSwipe |-> lastSwipe, lastOpenPalm |-> lastOpenPalm],
              acc.hands, states, timestamp)} :
  \E t \in {IF Len(acc.hands) = 2
            THEN computeTwoHandGesture(map, twoHandCache, acc.hands[1],
                                       acc.hands[2], timestamp)
            ELSE [cache |-> Null, twoHand |-> Null]} :
      /\ handStatesU' = map
      /\ lastGlobalOpenPalmTime' = g.lastGlobalOpenPalmTime
      /\ openPalmHoldTriggered' = g.openPalmHoldTriggered
      /\ lastFistToggle' = g.lastFistToggle
      /\ lastThumbsUp' = g.lastThumbsUp
      /\ lastSwipe' = g.lastSwipe
      /\ lastOpenPalm' = g.lastOpenPalm
      /\ twoHandCache' = t.cache
      /\ result' = [hands |-> acc.hands, commands |-> g.commands,
                    openPalm |-> g.openPalm, openPalmHold |-> g.openPalmHold,
                    fist |-> g.fist, thumbsUp |-> g.thumbsUp, swipe |-> g.swipe,
                    twoHand |-> t.twoHand]

\* ------------------------------------------------------------------ history
\* history records, of the frames so far:
\*   starts     how many pinches have started (2 stands for two or more)
\*   cycle      per hand index of process: the start and end of its previous
\*              pinch and of its current or last one (-1: none yet)
\*   toggles    the timestamps of the process frames that changed the tool
\*   sole       per hand index of process: on how many frames of its current
\*              pinch it was the only pinching hand (2 stands for two or more)
\*   fired      per command: the timestamp of the last frame that emitted it
\*              (-1: never)
\*   prior      per command: the timestamp of the frame that emitted it before
\*              that one (-1: none)
\*   hold       per hand index of process, for the run of frames up to the last
\*              on each of which the hand showed an open palm: when the run
\*              began (-1: the hand was not in the last frame or not open),
\*              how many of its frames emitted quickHelp on account of this
\*              hand and how many emitted togglePanels (2 stands for two or
\*              more), whether any emitted quickHelp, and whether every frame
\*              of the run held this hand alone
\*   stale      how many frames came with a timestamp not later than that of
\*              the frame before
\*   calls      how many times filter was called, or the scene's scale,
\*              applyScale and resetPose
\*   constant   whether all those calls passed the same value, each at a later
\*              timestamp than the one before
\*   twoRun     how many frames in a row, the last one included, had exactly
\*              two pinching hands (3 stands for three or more)
\*   episodes   how many such runs have begun (2 stands for two or more)
\*   ops        the last two calls on the canvas made from outside the apps'
\*              frame handlers, each with the canvas before it
noCycle == [prevStart |-> -1, prevEnd |-> -1, start |-> -1, end |-> -1]

commandNames ==
  {"togglePanels", "pauseCamera", "screenshot", "cycleShape",
   "toggle-pause", "screenshot-u", "switch-shape"}

noHold ==
  [since |-> -1, helps |-> 0, toggled |-> 0, helped |-> FALSE, alone |-> TRUE]

noHistory ==
  [starts |-> 0, cycle |-> <<>>, toggles |-> {}, sole |-> <<>>, hold |-> <<>>,
   fired |-> [c \in commandNames |-> -1],
   prior |-> [c \in commandNames |-> -1], stale |-> 0, calls |-> 0,
   constant |-> TRUE,
   twoRun |-> 0, episodes |-> 0, ops |-> <<>>]

cap2(n) == IF n > 2 THEN 2 ELSE n

cap3(n) == IF n > 3 THEN 3 ELSE n

\* stale after a frame at timestamp
staleAfter(h, timestamp) == IF timestamp <= now THEN h.stale + 1 ELSE h.stale

\* twoRun and episodes after a frame with n pinching hands
runAfter(h, n) == IF n = 2 THEN cap3(h.twoRun + 1) ELSE 0

episodesAfter(h, n) ==
  IF n = 2 /\ h.twoRun = 0 THEN cap2(h.episodes + 1) ELSE h.episodes

wasPinching(states, index) == index \in DOMAIN states /\ states[index].pinch

\* the commands of a bundle of process
emitted(bundle) ==
  {c \in {"togglePanels", "pauseCamera", "screenshot"} : bundle.global[c]}
  \cup (IF bundle.global.cycleShape # "null" THEN {"cycleShape"} ELSE {})

\* the commands of a result of update
emittedU(res) ==
  LET types == {res.commands[k].type : k \in DOMAIN res.commands}
  IN  (types \cap {"toggle-pause", "switch-shape"})
      \cup (IF "screenshot" \in types THEN {"screenshot-u"} ELSE {})

\* the number of pinching hands in a result of update
pinchingU(res) == Cardinality({k \in DOMAIN res.hands : res.hands[k].pinch})

observeProcess(h, before, after, toolBefore, toolAfter, bundle, hs, timestamp) ==
  LET present == {i - 1 : i \in DOMAIN hs}
      started == {i \in present : ~wasPinching(before, i) /\ after[i].pinch}
      ended == {i \in present : wasPinching(before, i) /\ ~after[i].pinch}
      old(i) == IF i \in DOMAIN h.cycle THEN h.cycle[i] ELSE noCycle
      oldSole(i) == IF i \in DOMAIN h.sole THEN h.sole[i] ELSE 0
      alone(i) == i \in present /\ after[i].pinch /\ bundle.info.pinchHands = 1
      open(i) == i \in present /\ after[i].isOpenPalm
      oldHold(i) == IF i \in DOMAIN h.hold /\ h.hold[i].since # -1
                    THEN h.hold[i]
                    ELSE [noHold EXCEPT !.since = timestamp]
      helpOf(i) == /\ after[i].quickHelpShown
                   /\ ~(i \in DOMAIN before /\ before[i].quickHelpShown)
  IN  [starts |-> cap2(h.starts + Cardinality(started)),
       cycle |-> [i \in DOMAIN after |->
                    IF i \in started
                    THEN [prevStart |-> old(i).start, prevEnd |-> old(i).end,
                          start |-> timestamp, end |-> -1]
                    ELSE IF i \in ended THEN [old(i) EXCEPT !.end = timestamp]
                    ELSE old(i)],
       toggles |-> IF toolAfter # toolBefore THEN h.toggles \cup {timestamp}
                   ELSE h.toggles,
       sole |-> [i \in DOMAIN after |->
                   IF ~after[i].pinch THEN 0
                   ELSE IF alone(i) THEN cap2(oldSole(i) + 1)
                   ELSE oldSole(i)],
       fired |-> [c \in commandNames |->
                    IF c \in emitted(bundle) THEN timestamp ELSE h.fired[c]],
       prior |-> [c \in commandNames |->
                    IF c \in emitted(bundle) THEN h.fired[c] ELSE h.prior[c]],
       hold |-> [i \in DOMAIN after |->
                   IF ~open(i) THEN noHold
                   ELSE [since |-> oldHold(i).since,
                         helps |-> cap2(oldHold(i).helps
                                        + (IF helpOf(i) THEN 1 ELSE 0)),
                         toggled |-> cap2(oldHold(i).toggled
                                          + (IF bundle.global.togglePanels
                                             THEN 1 ELSE 0)),
                         helped |-> oldHold(i).helped \/ bundle.global.quickHelp,
                         alone |-> oldHold(i).alone /\ Len(hs) = 1]],
       stale |-> staleAfter(h, timestamp),
       calls |-> h.calls, constant |-> h.constant,
       twoRun |-> runAfter(h, bundle.info.pinchHands),
       episodes |-> episodesAfter(h, bundle.info.pinchHands)]

observeUpdate(h, res, timestamp) ==
  LET nStarts == Cardinality({<<k, j>> \in (DOMAIN res.hands) \X (1..3) :
                    /\ j \in DOMAIN res.hands[k].events
                    /\ res.hands[k].events[j] = "pinch-start"})
  IN  [h EXCEPT !.starts = cap2(@ + nStarts),
                !.fired = [c \in commandNames |->
                             IF c \in emittedU(res) THEN timestamp ELSE @[c]],
                !.prior = [c \in commandNames |->
                             IF c \in emittedU(res) THEN h.fired[c] ELSE @[c]],
                !.stale = staleAfter(h, timestamp),
                !.twoRun = runAfter(h, pinchingU(res)),
                !.episodes = episodesAfter(h, pinchingU(res))]

\* ------------------------------------------------------------------ canvases
\* A stroke is [id, points]: id tells the stroke objects apart (made counts
\* the strokes created so far), points are the smoothed positions pushed so
\* far, in tenths of a pixel along one axis.  The smoothing filters, colours
\* and pressures of a stroke are left out.
\* DrawingCanvas and AirDraw as constructed (part_000 393-395, draw.js 12-21);
\* currentStroke is AirDraw's currentPath.
newCanvas ==
  [paths |-> <<>>, redoStack |-> <<>>, currentStroke |-> Null, made |-> 0]

\* array.pop(): the array without its last element
pop(array) == SubSeq(array, 1, Len(array) - 1)

last(array) == array[Len(array)]

\* DrawingCanvas.startStroke (part_000 427-449)
keepRedoStack(d) == d.redoStack

clearRedoStack(d) == <<>>

startStroke(d, point) ==
  [d EXCEPT !.redoStack = clearRedoStack(d),
            !.currentStroke = [id |-> d.made + 1, points |-> <<point>>],
            !.made = @ + 1]

\* DrawingCanvas.addPoint (part_000 451-456)
addPoint(d, point) ==
  IF d.currentStroke = Null THEN d
  ELSE [d EXCEPT !.currentStroke.points = Append(@, point)]

\* DrawingCanvas.endStroke (part_000 458-466)
commitsAny(stroke) == Len(stroke.points) > 0

commits(stroke) == Len(stroke.points) > 1

endStroke(d) ==
  IF d.currentStroke = Null THEN d
  ELSE [d EXCEPT !.paths = IF commits(d.currentStroke)
                           THEN Append(@, d.currentStroke) ELSE @,
                 !.currentStroke = Null]

\* DrawingCanvas.undo (part_000 468-474)
dropPopped(d) == d.redoStack

pushPopped(d) == Append(d.redoStack, last(d.paths))

undo(d) ==
  IF Len(d.paths) = 0 THEN d
  ELSE [d EXCEPT !.paths = pop(d.paths), !.redoStack = pushPopped(d)]

\* DrawingCanvas.redo (part_000 476-482)
redo(d) ==
  IF Len(d.redoStack) = 0 THEN d
  ELSE [d EXCEPT !.paths = Append(d.paths, last(d.redoStack)),
                 !.redoStack = pop(d.redoStack)]

\* DrawingCanvas.clear (part_000 484-488): currentStroke is left alone
clear(d) == [d EXCEPT !.paths = <<>>, !.redoStack = <<>>]

\* AirDraw.extendStroke (draw.js 66-81): without force, a point less than half
\* a pixel from the stroke's last point is dropped
extendStroke(d, point, force) ==
  IF d.currentStroke = Null THEN d
  ELSE IF /\ ~force
          /\ Len(d.currentStroke.points) > 0
          /\ Abs(point - last(d.currentStroke.points)) < 5
       THEN d
       ELSE [d EXCEPT !.currentStroke.points = Append(@, point)]

\* AirDraw.startStroke (draw.js 53-64)
startStrokeAirDraw(d, point) ==
  extendStroke([d EXCEPT !.currentStroke = [id |-> d.made + 1, points |-> <<>>],
                         !.made = @ + 1,
                         !.redoStack = clearRedoStack(d)],
               point, TRUE)

\* AirDraw.endStroke (draw.js 83-91)
endStrokeAirDraw(d) ==
  IF d.currentStroke = Null THEN d
  ELSE [d EXCEPT !.paths = IF commits(d.currentStroke)
                           THEN Append(@, d.currentStroke) ELSE @,
                 !.currentStroke = Null]

\* AirDraw.undo (draw.js 168-172)
undoAirDraw(d) ==
  IF Len(d.paths) = 0 THEN d
  ELSE [d EXCEPT !.paths = pop(d.paths), !.redoStack = pushPopped(d)]

\* AirDraw.redo (draw.js 174-178)
redoAirDraw(d) ==
  IF Len(d.redoStack) = 0 THEN d
  ELSE [d EXCEPT !.paths = Append(d.paths, last(d.redoStack)),
                 !.redoStack = pop(d.redoStack)]

\* AirDraw.clear (draw.js 180-184): currentPath is left alone
clearAirDraw(d) == [d EXCEPT !.paths = <<>>, !.redoStack = <<>>]

\* ------------------------------------------------------------------ the scene
\* Scale factors are JavaScript numbers as reduced fractions (Div): NaN is
\* 0/0, Infinity 1/0, -Infinity -1/0.
NaN == Div(0, 0)

isNaN(q) == q.d = 0 /\ q.n = 0

\* a * b
Times(a, b) ==
  IF isNaN(a) \/ isNaN(b) THEN NaN
  ELSE IF a.d = 0 \/ b.d = 0
       THEN Div(Sign(a.n) * Sign(b.n), 0)
       ELSE Div(a.n * b.n, a.d * b.d)

\* a < b ; false when either is NaN
Less(a, b) ==
  IF isNaN(a) \/ isNaN(b) THEN FALSE
  ELSE IF a.d = 0 /\ b.d = 0 THEN a.n < b.n
  ELSE IF a.d = 0 THEN a.n < 0
  ELSE IF b.d = 0 THEN b.n > 0
  ELSE a.n * b.d < b.n * a.d

\* Math.min(a, b) and Math.max(a, b): NaN when either is NaN
mathMin(a, b) ==
  IF isNaN(a) \/ isNaN(b) THEN NaN ELSE IF Less(b, a) THEN b ELSE a

mathMax(a, b) ==
  IF isNaN(a) \/ isNaN(b) THEN NaN ELSE IF Less(a, b) THEN b ELSE a

\* Vector3.clampScalar and MathUtils.clamp of three.js, per component:
\* Math.max(min, Math.min(max, value))
clampScalar(value, min, max) == mathMax(min, mathMin(max, value))

\* Scene3D.scale (scene3d.js 170-173), one component of targetScale
scale(targetScale, factor) ==
  clampScalar(Times(targetScale, factor), Div(2, 5), Num(4))

\* Scene3D.applyScale (scene3d.js 438-442), the mesh loaded; !scale holds of
\* 0 and of NaN
applyScale(scaleFactor, factor) ==
  IF factor.n = 0 THEN scaleFactor
  ELSE clampScalar(Times(scaleFactor, factor), Div(7, 20), Div(5, 2))

\* Scene3D.resetPose (scene3d.js 175-179 and 444-450)
resetPose == Num(1)

\* ---------------------------------------------------------------- the tracker
\* HandTracker as constructed (hand-tracker.js 16-19), callbacks registered and
\* the landmarker loaded.  active and frameId are its fields; pending is the
\* set of frame callbacks the browser still holds (requestVideoFrameCallback
\* or requestAnimationFrame, whichever the browser has), suspended the number
\* of processFrame invocations awaiting detectForVideo, issued the number of
\* callback ids handed out so far.
\* frameId is 0 for null (callback ids are positive); late counts the
\* 'results' events emitted since stop() last returned with no start() after
\* it, and stopped tells whether that is the situation (neither is a field).
newHandTracker ==
  [active |-> FALSE, frameId |-> 0, pending |-> {}, suspended |-> 0,
   issued |-> 0, video |-> FALSE, stopped |-> FALSE, late |-> 0]

\* HandTracker.loop (hand-tracker.js 74-75, 118-128): hands processFrame to
\* the browser as the next frame callback
loop(t) ==
  IF ~t.video \/ ~t.active THEN t
  ELSE [t EXCEPT !.frameId = t.issued + 1,
                 !.pending = @ \cup {t.issued + 1},
                 !.issued = @ + 1]

\* HandTracker.start (hand-tracker.js 56-60)
start(t) ==
  loop([t EXCEPT !.video = TRUE, !.active = TRUE, !.stopped = FALSE,
                 !.late = 0])

\* HandTracker.stop (hand-tracker.js 62-72)
stop(t) ==
  [t EXCEPT !.active = FALSE,
            !.pending = IF t.frameId # 0 THEN @ \ {t.frameId} ELSE @,
            !.frameId = 0,
            !.stopped = TRUE]

\* processFrame up to its await (hand-tracker.js 77-91), the landmarker
\* loaded; due tells whether targetInterval has passed since lastProcessTime
processFrame(t, due) ==
  IF ~t.active \/ ~due THEN t ELSE [t EXCEPT !.suspended = @ + 1]

\* the frame callback id, as the browser runs it (hand-tracker.js 119-122,
\* 124-127): processFrame, then loop
frameCallback(t, id, due) ==
  loop(processFrame([t EXCEPT !.pending = @ \ {id}], due))

\* processFrame after its await (hand-tracker.js 92-115): emits 'results'
resume(t) ==
  [t EXCEPT !.suspended = @ - 1,
            !.late = IF t.stopped THEN 1 ELSE @]

\* ------------------------------------------------------------ specifications
\* Both controllers as their constructors leave them (utils.js 617-625,
\* gestures.js 36-45), before the first frame
Fresh ==
  /\ engine \in {"process", "update"}
  /\ now = 0
  /\ hands = <<>>
  /\ handStates = <<>>
  /\ tool = "draw"
  /\ twoHandSession = Null
  /\ lastPanelsToggle = 0
  /\ lastPauseToggle = 0
  /\ lastScreenshot = 0
  /\ lastShapeSwipe = 0
  /\ events = emptyEvents("draw")
  /\ handStatesU = <<>>
  /\ lastGlobalOpenPalmTime = 0
  /\ openPalmHoldTriggered = FALSE
  /\ lastFistToggle = 0
  /\ lastThumbsUp = 0
  /\ lastSwipe = 0
  /\ twoHandCache = Null
  /\ lastOpenPalm = FALSE
  /\ result = emptyResult
  /\ filter = IF engine = "process" THEN newOneEuroFilterUtils(1200, 20)
              ELSE newOneEuroFilter(1200, 10)
  /\ filterIn = Null
  /\ filterOut = Null
  /\ paused = FALSE
  /\ camera = <<>>
  /\ canvas = newCanvas
  /\ currentDrawingHand = "null"
  /\ sceneScale = Num(1)
  /\ tracker = newHandTracker
  /\ history = noHistory

Init == Fresh /\ gesture = "any"

\* every frame of at most two hands drawn from HS
framesOf(HS) ==
  {<<>>} \cup {<<h>> : h \in HS} \cup {<<h1, h2>> : h1 \in HS, h2 \in HS}

\* The caller hands process one frame: hs at timestamp
ProcessFrame(hs, timestamp) ==
  /\ engine = "process"
  /\ now' = timestamp
  /\ hands' = hs
  /\ process(hs, timestamp)
  /\ history' = observeProcess(history, handStates, handStates', tool, tool',
                               events', hs, timestamp)
  /\ UNCHANGED <<engine, gesture, updateVars, filterVars, appVars, outerVars>>

\* The caller hands update one frame: hs at timestamp
UpdateFrame(hs, timestamp) ==
  /\ engine = "update"
  /\ now' = timestamp
  /\ hands' = hs
  /\ update(hs, timestamp)
  /\ history' = observeUpdate(history, result', timestamp)
  /\ UNCHANGED <<engine, gesture, processVars, filterVars, appVars, outerVars>>

\* every frame of at most one hand drawn from HS
framesOfOne(HS) == {<<>>} \cup {<<h>> : h \in HS}

\* Pinching: one hand in neutral posture opens and closes the pinch at the two
\* thresholds, in the band between them and on either side.
PinchRatios == {20, PINCH_ON, 32, PINCH_OFF, 40}

PinchHands ==
  {[ratio |-> r, ext |-> 200, tip |-> Point(x, 50), cx |-> 50,
    thumbExtended |-> FALSE] : r \in PinchRatios, x \in {40}}

PinchRatiosU == {30, PINCH_THRESHOLD, 55, PINCH_RELEASE_THRESHOLD, 80}

PinchHandsU ==
  {[handedness |-> "Right", score |-> 950, pinch |-> r,
    tip |-> [x |-> x, y |-> 5000, z |-> 0], palm |-> 5000, roll |-> 0,
    ext |-> 40, thumbsUp |-> FALSE] : r \in PinchRatiosU, x \in {4000}}

PinchSteps == {100, 300}

NextPinch ==
  \/ \E hs \in framesOfOne(PinchHands), dt \in PinchSteps :
       now + dt <= MaxTime /\ ProcessFrame(hs, now + dt)
  \/ \E hs \in framesOfOne(PinchHandsU), dt \in PinchSteps :
       now + dt <= MaxTime /\ UpdateFrame(hs, now + dt)

SpecPinch == Init /\ [][NextPinch]_vars

\* Two hands: the first hand keeps its place, the second moves along and off
\* the line through both, and each opens and closes its pinch.  A frame of one
\* hand holds the first hand.  For update the second hand carries either the
\* other handedness label or the same label with another score.
MaxTimeTwoHand == 500

TwoHandSteps == {100}

FirstHands ==
  {[ratio |-> r, ext |-> 200, tip |-> Point(10, 50), cx |-> 50,
    thumbExtended |-> FALSE] : r \in {20, 40}}

SecondHands ==
  {[ratio |-> r, ext |-> 200, tip |-> p, cx |-> 50, thumbExtended |-> FALSE] :
     r \in {20, 40}, p \in {Point(30, 50), Point(50, 50), Point(10, 130)}}

FirstHandsU ==
  {[handedness |-> "Right", score |-> 950, pinch |-> r,
    tip |-> [x |-> 1000, y |-> 5000, z |-> 0], palm |-> 5000, roll |-> 0,
    ext |-> 40, thumbsUp |-> FALSE] : r \in {30, 80}}

SecondHandsU ==
  {[handedness |-> l[1], score |-> l[2], pinch |-> r,
    tip |-> [x |-> x, y |-> 5000, z |-> 0], palm |-> 5000, roll |-> 0,
    ext |-> 40, thumbsUp |-> FALSE] :
     l \in {<<"Left", 950>>, <<"Right", 900>>}, r \in {30, 80},
     x \in {3000, 9000}}

framesOfTwo(H1, H2) ==
  {<<>>} \cup {<<h>> : h \in H1} \cup {<<h1, h2>> : h1 \in H1, h2 \in H2}

NextTwoHand ==
  \/ \E hs \in framesOfTwo(FirstHands, SecondHands) :
       \E dt \in TwoHandSteps :
         now + dt <= MaxTimeTwoHand /\ ProcessFrame(hs, now + dt)
  \/ \E hs \in framesOfTwo(FirstHandsU, SecondHandsU) :
       \E dt \in TwoHandSteps :
         now + dt <= MaxTimeTwoHand /\ UpdateFrame(hs, now + dt)

SpecTwoHand == Init /\ [][NextTwoHand]_vars

\* Global commands: no pinching.  The user exercises one gesture in a session:
\* a fist, a fist with the thumb up (update: the thumb up beside a half-open
\* hand), or a palm (process: an open palm at one of two places; update: a left
\* hand at one of two places).  A frame has no hand, one hand that is neutral
\* or shows the gesture, or two hands showing it (update: a right and a left
\* hand).  Frames are 300 or 500 ms apart, so that every cooldown is met exactly
\* and exceeded.
MaxTimeGlobal == 3200

\* A session of palm gestures, whose cooldowns are the shortest, ends earlier.
MaxTimePalm == 2000

horizon(g) == IF g = "palm" THEN MaxTimePalm ELSE MaxTimeGlobal

GlobalSteps == {300, 500}

Gestures == {"fist", "thumbsUp", "palm"}

InitGlobal == Fresh /\ gesture \in Gestures

handOf(ext, cx, thumbExtended) ==
  [ratio |-> 40, ext |-> ext, tip |-> Point(40, 50), cx |-> cx,
   thumbExtended |-> thumbExtended]

neutralHand == handOf(200, 50, FALSE)

showing(g) ==
  IF g = "fist" THEN {handOf(100, 50, FALSE)}
  ELSE IF g = "thumbsUp" THEN {handOf(100, 50, TRUE)}
  ELSE {handOf(300, 50, FALSE), handOf(300, 90, FALSE)}

handOfU(handedness, palm, ext, thumbsUp) ==
  [handedness |-> handedness, score |-> 950, pinch |-> 80,
   tip |-> [x |-> 4000, y |-> 5000, z |-> 0], palm |-> palm, roll |-> 0,
   ext |-> ext, thumbsUp |-> thumbsUp]

neutralHandU == handOfU("Right", 5000, 40, FALSE)

showingU(g) ==
  IF g = "fist" THEN {handOfU("Right", 5000, 20, FALSE)}
  ELSE IF g = "thumbsUp" THEN {handOfU("Right", 5000, 40, TRUE)}
  ELSE {handOfU("Left", 5000, 40, FALSE), handOfU("Left", 9000, 40, FALSE)}

GlobalFrames(g) ==
  framesOfOne(showing(g) \cup {neutralHand})
    \cup (IF g = "palm" THEN {} ELSE {<<h, h>> : h \in showing(g)})

GlobalFramesU(g) ==
  framesOfOne(showingU(g) \cup {neutralHandU})
    \cup {<<neutralHandU, h>> : h \in showingU(g)}

NextGlobal ==
  \/ \E hs \in GlobalFrames(gesture), dt \in GlobalSteps :
       now + dt <= horizon(gesture) /\ ProcessFrame(hs, now + dt)
  \/ \E hs \in GlobalFramesU(gesture), dt \in GlobalSteps :
       now + dt <= horizon(gesture) /\ UpdateFrame(hs, now + dt)

SpecGlobal == InitGlobal /\ [][NextGlobal]_vars

\* Open-palm holds of process: two hands in every frame, each neutral or
\* showing an open palm at rest.
MaxTimeHold == 2800

HoldHands == {handOf(200, 50, FALSE), handOf(300, 50, FALSE)}

NextHold ==
  \E hs \in {<<h1, h2>> : h1 \in HoldHands, h2 \in HoldHands}, dt \in GlobalSteps :
    now + dt <= MaxTimeHold /\ ProcessFrame(hs, now + dt)

InitHold == Init /\ engine = "process"

SpecHold == InitHold /\ [][NextHold]_vars

\* Coinciding pinch points: two hands in every frame, the first pinching at one
\* place, the second pinching or not, at the same place or beside it (update:
\* held level or rolled by 15 degrees).
MaxTimeAnchor == 400

AnchorHands ==
  {[ratio |-> r, ext |-> 200, tip |-> p, cx |-> 50, thumbExtended |-> FALSE] :
     r \in {20, 40}, p \in {Point(10, 50), Point(30, 50), Point(50, 50)}}

AnchorHandsU ==
  {[handedness |-> "Left", score |-> 950, pinch |-> r,
    tip |-> [x |-> x, y |-> 5000, z |-> 0], palm |-> 5000, roll |-> a,
    ext |-> 40, thumbsUp |-> FALSE] :
     r \in {30, 80}, x \in {1000, 3000, 5000}, a \in {0, 1500}}

NextAnchor ==
  \/ \E h1 \in {h \in FirstHands : h.ratio = 20}, h2 \in AnchorHands :
       \E dt \in TwoHandSteps :
         now + dt <= MaxTimeAnchor /\ ProcessFrame(<<h1, h2>>, now + dt)
  \/ \E h1 \in {h \in FirstHandsU : h.pinch = 30}, h2 \in AnchorHandsU :
       \E dt \in TwoHandSteps :
         now + dt <= MaxTimeAnchor /\ UpdateFrame(<<h1, h2>>, now + dt)

SpecAnchor == Init /\ [][NextAnchor]_vars

\* One right hand in front of update, opening and closing its pinch, reported
\* with a detection score that varies from frame to frame.
MaxTimeIdentity == 400

IdentityHands ==
  {[handedness |-> "Right", score |-> c, pinch |-> r,
    tip |-> [x |-> 4000, y |-> 5000, z |-> 0], palm |-> 5000, roll |-> 0,
    ext |-> 40, thumbsUp |-> FALSE] : c \in {900, 950, 952}, r \in {30, 55, 80}}

InitIdentity == Init /\ engine = "update"

NextIdentity ==
  \E h \in IdentityHands, dt \in TwoHandSteps :
    now + dt <= MaxTimeIdentity /\ UpdateFrame(<<h>>, now + dt)

SpecIdentity == InitIdentity /\ [][NextIdentity]_vars

\* Postures: one hand in every frame, not pinching, its fingers extended below,
\* at, between and above the fist and open-palm thresholds, the thumb up or not.
MaxTimePosture == 1100

PostureHands ==
  {handOf(ext, 50, up) :
     ext \in {100, FIST_THRESHOLD, 200, PALM_OPEN_THRESHOLD, 300}, up \in BOOLEAN}

PostureHandsU ==
  {handOfU("Right", 5000, ext, up) : ext \in {20, 31, 40, 56, 60}, up \in BOOLEAN}

NextPosture ==
  \/ \E h \in PostureHands, dt \in GlobalSteps :
       now + dt <= MaxTimePosture /\ ProcessFrame(<<h>>, now + dt)
  \/ \E h \in PostureHandsU, dt \in GlobalSteps :
       now + dt <= MaxTimePosture /\ UpdateFrame(<<h>>, now + dt)

SpecPosture == Init /\ [][NextPosture]_vars

\* Swipes with timestamps out of order: one hand in every frame, an open palm
\* (update: a left hand) at one of two places, the timestamp of a frame later
\* than, equal to or earlier than that of the frame before.
MaxTimeSwipe == 900

MaxStale == 2

SwipeSteps == {-100, 0, 300}

InitSwipe == Fresh /\ gesture = "palm"

NextSwipe ==
  \/ \E h \in showing("palm"), dt \in SwipeSteps :
       /\ now + dt > 0
       /\ now + dt <= MaxTimeSwipe
       /\ dt <= 0 => history.stale < MaxStale
       /\ ProcessFrame(<<h>>, now + dt)
  \/ \E h \in showingU("palm"), dt \in SwipeSteps :
       /\ now + dt > 0
       /\ now + dt <= MaxTimeSwipe
       /\ dt <= 0 => history.stale < MaxStale
       /\ UpdateFrame(<<h>>, now + dt)

SpecSwipe == InitSwipe /\ [][NextSwipe]_vars

\* App.applyDrawingGestures (README.md 268-280); the canvas takes the x of
\* the point
applyDrawingGestures(d, drawingEvents) ==
  LET started == IF drawingEvents.justStarted
                 THEN startStroke(d, drawingEvents.point.x) ELSE d
      added == IF drawingEvents.active
               THEN addPoint(started, drawingEvents.point.x) ELSE started
  IN  IF drawingEvents.justEnded THEN endStroke(added) ELSE added

\* AirHandsApp.finishDrawing (part_000 286-291); c = [canvas, hand], hand
\* being currentDrawingHand, "null" for null
finishDrawing(c) ==
  IF c.hand # "null"
  THEN [canvas |-> endStrokeAirDraw(c.canvas), hand |-> "null"]
  ELSE c

\* the forEach of handleDrawing (part_000 279-283) from position k on
RECURSIVE finishEnded(_, _, _)
finishEnded(c, hs, k) ==
  IF k > Len(hs) THEN c
  ELSE finishEnded(IF /\ \E j \in DOMAIN hs[k].events :
                           hs[k].events[j] = "pinch-end"
                      /\ c.hand = hs[k].handedness
                   THEN finishDrawing(c) ELSE c,
                   hs, k + 1)

\* AirHandsApp.handleDrawing (part_000 257-284); toCanvasPoint keeps the x of
\* the pinch point, in tenths of a pixel
handleDrawing(c, gestureState) ==
  LET activePinchHands ==
        {k \in DOMAIN gestureState.hands : gestureState.hands[k].pinch}
  IN  IF Cardinality(activePinchHands) # 1 \/ gestureState.twoHand # Null
      THEN finishDrawing(c)
      ELSE LET hand == gestureState.hands[CHOOSE k \in activePinchHands : TRUE]
               point == hand.pinchPoint.x \div 10
           IN  IF hand.pinchPoint = Null THEN c
               ELSE IF c.hand = "null"
               THEN finishEnded([canvas |-> startStrokeAirDraw(c.canvas, point),
                                 hand |-> hand.handedness],
                                gestureState.hands, 1)
               ELSE IF c.hand # hand.handedness THEN finishDrawing(c)
               ELSE finishEnded([c EXCEPT !.canvas = extendStroke(@, point, FALSE)],
                                gestureState.hands, 1)

\* The apps around the controllers, the user showing fists.  The camera
\* delivers a frame every 300 or 500 ms, more than App.frameInterval apart.
\* App.startLoop's processFrame (README.md 305-322) returns at once while
\* cameraPaused; otherwise it hands the frame to process and applies the
\* bundle, where pauseCamera flips cameraPaused (README.md 286-288, 244-247).
\* applyDrawingGestures (README.md 268-280) drives the DrawingCanvas with the
\* drawing part of the bundle.  What the bundle does to the scene is left out
\* (applySceneGestures, README.md 256-266); the scene's scale is followed on
\* its own, under SpecScene.
AppFrame(hs, timestamp) ==
  /\ engine = "process"
  /\ now' = timestamp
  /\ camera' = hs
  /\ IF paused
     THEN UNCHANGED <<hands, processVars, paused, canvas, history>>
     ELSE /\ hands' = hs
          /\ process(hs, timestamp)
          /\ canvas' = applyDrawingGestures(canvas, events'.drawing)
          /\ paused' = IF events'.global.pauseCamera THEN ~paused ELSE paused
          /\ history' = observeProcess(history, handStates, handStates', tool,
                                       tool', events', hs, timestamp)
  /\ UNCHANGED <<engine, gesture, updateVars, filterVars, currentDrawingHand,
                 sceneVars, trackerVars>>

\* AirHandsApp.onHandResults (part_000 207-218) returns at once while isPaused,
\* and after finishDrawing, without calling update, when the frame has no
\* hand; otherwise it hands the frame to update and handles the commands,
\* where toggle-pause calls togglePause (part_000 242-244, 343-344), then the
\* drawing.  handleSceneGestures (part_000 293-318) is left out, as for App.
AppResults(hs, timestamp) ==
  /\ engine = "update"
  /\ now' = timestamp
  /\ camera' = hs
  /\ IF paused
     THEN UNCHANGED <<hands, updateVars, paused, canvasVars, history>>
     ELSE IF Len(hs) = 0
     THEN /\ \E c \in {finishDrawing([canvas |-> canvas,
                                      hand |-> currentDrawingHand])} :
               canvas' = c.canvas /\ currentDrawingHand' = c.hand
          /\ UNCHANGED <<hands, updateVars, paused, history>>
     ELSE /\ hands' = hs
          /\ update(hs, timestamp)
          /\ paused' = IF "toggle-pause" \in emittedU(result')
                       THEN ~paused ELSE paused
          /\ \E c \in {handleDrawing([canvas |-> canvas,
                                      hand |-> currentDrawingHand], result')} :
               canvas' = c.canvas /\ currentDrawingHand' = c.hand
          /\ history' = observeUpdate(history, result', timestamp)
  /\ UNCHANGED <<engine, gesture, processVars, filterVars, sceneVars,
                 trackerVars>>

MaxTimeApp == 2400

InitApp == Fresh /\ gesture = "fist"

NextApp ==
  \/ \E hs \in GlobalFrames("fist"), dt \in GlobalSteps :
       now + dt <= MaxTimeApp /\ AppFrame(hs, now + dt)
  \/ \E hs \in GlobalFramesU("fist"), dt \in GlobalSteps :
       now + dt <= MaxTimeApp /\ AppResults(hs, now + dt)

SpecApp == InitApp /\ [][NextApp]_vars

\* The filters: one fresh filter of either implementation (utils.js with the
\* parameters of smoothPoint, scene3d.js with those of defaultHandState) is
\* called a few times with values and timestamps in any order, equal and
\* earlier timestamps included.
MaxCalls == 4

FilterValues == {0, 1000, 4000}

FilterTimes == {0, 100, 200, 300}

observeCall(h, before, value, timestamp) ==
  [h EXCEPT !.calls = @ + 1,
            !.constant = \/ h.calls = 0
                         \/ /\ h.constant
                            /\ value = before.value
                            /\ timestamp > before.timestamp]

\* filter.filter(value, timestamp) on the filter of utils.js
FilterCallUtils(value, timestamp) ==
  /\ engine = "process"
  /\ \E r \in {oneEuroFilterUtils(filter, value, timestamp)} :
       filter' = r.f /\ filterOut' = r.out
  /\ filterIn' = [value |-> value, timestamp |-> timestamp]
  /\ history' = observeCall(history, filterIn, value, timestamp)
  /\ UNCHANGED <<engine, gesture, now, hands, processVars, updateVars, appVars,
                 outerVars>>

\* filter.filter(value, timestamp) on the filter of scene3d.js
FilterCall(value, timestamp) ==
  /\ engine = "update"
  /\ \E r \in {oneEuroFilter(filter, value, timestamp)} :
       filter' = r.f /\ filterOut' = [finite |-> TRUE, v |-> r.out]
  /\ filterIn' = [value |-> value, timestamp |-> timestamp]
  /\ history' = observeCall(history, filterIn, value, timestamp)
  /\ UNCHANGED <<engine, gesture, now, hands, processVars, updateVars, appVars,
                 outerVars>>

NextFilter ==
  \/ \E value \in FilterValues, timestamp \in FilterTimes :
       history.calls < MaxCalls /\ FilterCallUtils(value, timestamp)
  \/ \E value \in FilterValues, timestamp \in FilterTimes :
       history.calls < MaxCalls /\ FilterCall(value, timestamp)

SpecFilter == Init /\ [][NextFilter]_vars

\* The apps drawing: the hands of the two-hand sessions in front of the app,
\* each opening and closing its pinch, coming and going.
MaxTimeStroke == 400

NextStroke ==
  \/ \E hs \in framesOfTwo(FirstHands, SecondHands) :
       \E dt \in TwoHandSteps :
         now + dt <= MaxTimeStroke /\ AppFrame(hs, now + dt)
  \/ \E hs \in framesOfTwo(FirstHandsU, SecondHandsU) :
       \E dt \in TwoHandSteps :
         now + dt <= MaxTimeStroke /\ AppResults(hs, now + dt)

SpecStroke == Init /\ [][NextStroke]_vars

\* The apps and a palm that comes and goes: at most one hand in front of the
\* camera, neutral or showing an open palm, for update at one of two places.
MaxTimeGap == 1600

GapHands == {neutralHand, handOf(300, 50, FALSE)}

GapHandsU ==
  {neutralHandU, handOfU("Right", 5000, 60, FALSE),
   handOfU("Right", 9000, 60, FALSE)}

NextGap ==
  \/ \E hs \in framesOfOne(GapHands), dt \in GlobalSteps :
       now + dt <= MaxTimeGap /\ AppFrame(hs, now + dt)
  \/ \E hs \in framesOfOne(GapHandsU), dt \in GlobalSteps :
       now + dt <= MaxTimeGap /\ AppResults(hs, now + dt)

SpecGap == Init /\ [][NextGap]_vars

\* The canvas: the methods of the app's canvas (DrawingCanvas beside process,
\* AirDraw beside update) called in any order, as the gesture handlers and the
\* undo, redo and clear buttons call them.
MaxStrokes == 2

MaxPoints == 2

Points == {0, 3, 10}

\* history.ops: the last two calls on the canvas, each with the canvas before
observeCanvas(h, op) ==
  [h EXCEPT !.ops = (IF Len(@) = 2 THEN <<@[2]>> ELSE @)
                      \o <<[op |-> op, before |-> canvas]>>]

CanvasCall(op, after) ==
  /\ canvas' = after
  /\ history' = observeCanvas(history, op)
  /\ UNCHANGED <<engine, gesture, now, hands, processVars, updateVars,
                 filterVars, appVars, currentDrawingHand, sceneVars,
                 trackerVars>>

StartStroke(point) ==
  CanvasCall("startStroke", IF engine = "process"
                            THEN startStroke(canvas, point)
                            ELSE startStrokeAirDraw(canvas, point))

\* addPoint of DrawingCanvas, extendStroke of AirDraw
AddPoint(point) ==
  CanvasCall("addPoint", IF engine = "process"
                         THEN addPoint(canvas, point)
                         ELSE extendStroke(canvas, point, FALSE))

EndStroke ==
  CanvasCall("endStroke", IF engine = "process" THEN endStroke(canvas)
                          ELSE endStrokeAirDraw(canvas))

Undo ==
  CanvasCall("undo", IF engine = "process" THEN undo(canvas)
                     ELSE undoAirDraw(canvas))

Redo ==
  CanvasCall("redo", IF engine = "process" THEN redo(canvas)
                     ELSE redoAirDraw(canvas))

Clear ==
  CanvasCall("clear", IF engine = "process" THEN clear(canvas)
                      ELSE clearAirDraw(canvas))

NextDraw ==
  \/ \E point \in Points : canvas.made < MaxStrokes /\ StartStroke(point)
  \/ \E point \in Points :
       /\ canvas.currentStroke # Null
            => Len(canvas.currentStroke.points) < MaxPoints
       /\ AddPoint(point)
  \/ EndStroke
  \/ Undo
  \/ Redo
  \/ Clear

SpecDraw == Init /\ [][NextDraw]_vars

\* The scene: scale (beside process) or applyScale (beside update) and
\* resetPose called in any order with any factor, as the two-hand gesture and
\* the reset button call them.
MaxSceneCalls == 5

Factors ==
  {Num(0), NaN, Div(1, 0), Div(-1, 0), Div(1, 2), Num(2), Num(3), Num(-1)}

SceneCall(after) ==
  /\ sceneScale' = after
  /\ history' = [history EXCEPT !.calls = @ + 1]
  /\ UNCHANGED <<engine, gesture, now, hands, processVars, updateVars,
                 filterVars, appVars, canvasVars, trackerVars>>

Scale(factor) ==
  SceneCall(IF engine = "process" THEN scale(sceneScale, factor)
            ELSE applyScale(sceneScale, factor))

ResetPose == SceneCall(resetPose)

NextScene ==
  \/ \E factor \in Factors : history.calls < MaxSceneCalls /\ Scale(factor)
  \/ history.calls < MaxSceneCalls /\ ResetPose

SpecScene == Init /\ [][NextScene]_vars

\* The tracker: start and stop called in any order, the browser running the
\* pending frame callbacks and detectForVideo resolving whenever they do.
MaxCallbacks == 5

TrackerStep(after) ==
  /\ engine = "update"
  /\ tracker' = after
  /\ UNCHANGED <<engine, gesture, now, hands, processVars, updateVars,
                 filterVars, appVars, canvasVars, sceneVars, history>>

Start == tracker.issued < MaxCallbacks /\ TrackerStep(start(tracker))

Stop == TrackerStep(stop(tracker))

FrameCallback(id, due) ==
  /\ id \in tracker.pending
  /\ tracker.issued < MaxCallbacks
  /\ TrackerStep(frameCallback(tracker, id, due))

Resume == tracker.suspended > 0 /\ TrackerStep(resume(tracker))

NextTracker ==
  \/ Start
  \/ Stop
  \/ \E id \in 1..MaxCallbacks, due \in BOOLEAN : FrameCallback(id, due)
  \/ Resume

InitTracker == Init /\ engine = "update"

SpecTracker == InitTracker /\ [][NextTracker]_vars

\* ------------------------------------------------------------------- claims
\* the hand indices of the frame hs
indicesOf(hs) == {i - 1 : i \in DOMAIN hs}

\* C1: in process, a hand's pinch flag turns true only on a frame whose pinch
\* ratio is below PINCH_ON and turns false only on a frame whose ratio is above
\* PINCH_OFF; on a frame whose ratio is inside [PINCH_ON, PINCH_OFF] the flag
\* keeps its value, and the flag of a hand that is not in the frame is kept.
C1_PinchHysteresis ==
  [][engine = "process" =>
       \A i \in DOMAIN handStates' :
         LET was == wasPinching(handStates, i)
             is == handStates'[i].pinch
             inFrame == i \in indicesOf(hands')
             ratio == hands'[i + 1].ratio
         IN  /\ (~was /\ is) => (inFrame /\ ratio < PINCH_ON)
             /\ (was /\ ~is) => (inFrame /\ ratio > PINCH_OFF)
             /\ (inFrame /\ ratio >= PINCH_ON /\ ratio <= PINCH_OFF) => (is <=> was)
    ]_vars

\* C1 witness: a pinch is being held on a frame whose ratio is inside the band.
C1_Witness ==
  /\ engine = "process"
  /\ Len(hands) = 1
  /\ hands[1].ratio > PINCH_ON /\ hands[1].ratio < PINCH_OFF
  /\ handStates[0].pinch

\* C2 (the claim as stated): on the process frame in which the only pinching
\* hand of the previous frame releases its pinch, the bundle has
\* drawing.justEnded = TRUE and drawing.active = FALSE.
C2_JustEndedOnRelease ==
  [][(/\ engine = "process"
      /\ events.info.pinchHands = 1 /\ events.drawing.active
      /\ events'.info.pinchHands = 0
      /\ \E i \in indicesOf(hands') :
            wasPinching(handStates, i) /\ ~handStates'[i].pinch)
     => (events'.drawing.justEnded /\ ~events'.drawing.active)
    ]_vars

\* C4 (the claim as stated): while at most one pinch has started since the
\* controller was created, process has not toggled the tool and update has
\* emitted no double-pinch event and no toggle-draw-mode command.
C4_NoDoublePinchFromOnePinch ==
  history.starts <= 1 =>
    /\ engine = "process" =>
         /\ tool = "draw" /\ history.toggles = {}
         /\ \A i \in DOMAIN handStates : ~handStates[i].pendingDoublePinch
    /\ engine = "update" =>
         /\ \A k \in DOMAIN result.hands :
              \A j \in DOMAIN result.hands[k].events :
                 result.hands[k].events[j] # "double-pinch"
         /\ \A k \in DOMAIN result.commands :
              result.commands[k].type # "toggle-draw-mode"

\* C5 (the claim as stated): in process, when a hand has just ended the second
\* of two consecutive pinches, each shorter than DOUBLE_PINCH_WINDOW and with a
\* gap shorter than DOUBLE_PINCH_WINDOW between them, the tool was toggled
\* exactly once from the first start on, on the frame of the second start.
C5_DoublePinchOnSecondStart ==
  engine = "process" =>
    \A i \in DOMAIN history.cycle :
      LET c == history.cycle[i]
      IN  (/\ c.end = now /\ c.prevStart # -1
           /\ c.prevEnd - c.prevStart < DOUBLE_PINCH_WINDOW
           /\ c.end - c.start < DOUBLE_PINCH_WINDOW
           /\ c.start - c.prevEnd < DOUBLE_PINCH_WINDOW)
          => {t \in history.toggles : t >= c.prevStart} = {c.start}

\* C3: in process, on the first frame on which a hand is the only pinching
\* hand of its current pinch the bundle has drawing.justStarted and
\* drawing.active set, no rotation and scene.activeHands = 0; on the later
\* frames on which the hand is the only pinching hand of the same pinch
\* drawing.justStarted is not set.
C3_StrokeStart ==
  engine = "process" =>
    \A i \in indicesOf(hands) :
      (handStates[i].pinch /\ events.info.pinchHands = 1) =>
        /\ history.sole[i] = 1 =>
             /\ events.drawing.justStarted /\ events.drawing.active
             /\ events.scene.rotate = [x |-> 0, y |-> 0, z |-> ZeroAngle]
             /\ events.scene.activeHands = 0
        /\ history.sole[i] = 2 => ~events.drawing.justStarted

\* C3 witness: the second hand began its pinch on an earlier frame, beside the
\* pinching first hand, and is now for the first time the only pinching hand.
C3_Witness ==
  /\ engine = "process"
  /\ Len(hands) = 2
  /\ ~handStates[0].pinch /\ handStates[1].pinch
  /\ history.cycle[1].start < now
  /\ history.sole[1] = 1
  /\ events.drawing.justStarted /\ events.drawing.active

\* the squared distance between the index tips of a frame of two hands
tipDistance(hs) == distance2D(hs[1].tip, hs[2].tip)

\* C8: in process, on a frame with two pinching hands that follows a frame
\* with two pinching hands, scene.scale is the ratio of this frame's inter-pinch
\* distance to the previous frame's (the distances and so the ratio are carried
\* squared): D1/D0 on the frame after the seeding one, D2/D1 on the next.
C8_ScaleFrameToFrame ==
  [][(/\ engine = "process"
      /\ events.info.pinchHands = 2
      /\ events'.info.pinchHands = 2)
     => /\ events'.scene.scale = Div(tipDistance(hands'), tipDistance(hands))
        /\ events'.scene.activeHands = 2
    ]_vars

\* C8 witness: a third frame in a row with two pinching hands whose distance
\* differs from the previous frame's, the session holding this frame's distance.
C8_Witness ==
  /\ engine = "process"
  /\ history.twoRun = 3
  /\ events.scene.scale # Num(1)
  /\ twoHandSession.baseDistance = tipDistance(hands)

\* C9 (the claim as stated): after process the session is non-null exactly when
\* two hands of the frame are pinching; after update the cache is non-null
\* exactly when the frame had two hands and both are pinching.
C9_AnchorIffTwoPinching ==
  /\ engine = "process" =>
       ((twoHandSession # Null) <=>
          Cardinality({i \in indicesOf(hands) : handStates[i].pinch}) = 2)
  /\ engine = "update" =>
       ((twoHandCache # Null) <=>
          (/\ Len(hands) = 2
           /\ result.hands[1].pinch /\ result.hands[2].pinch))

\* the deltas of the last frame are the identity, for either engine
identityDeltas ==
  IF engine = "process"
  THEN /\ events.scene.scale = Num(1)
       /\ events.scene.translate = [x |-> Num(0), y |-> Num(0)]
       /\ events.scene.rotate.z = ZeroAngle
  ELSE result.twoHand # Null =>
         /\ result.twoHand.scale = noDeltas.scale
         /\ result.twoHand.translate = noDeltas.translate
         /\ result.twoHand.rotateZ = noDeltas.rotateZ

\* C10 (the claim as stated): the first frame with exactly two pinching hands
\* after a frame with fewer emits the identity transform.
C10_ReentryReseeds ==
  history.twoRun = 1 => identityDeltas

\* the cooldown the specification gives each command
statedCooldown(c) ==
  IF c \in {"togglePanels", "cycleShape"} THEN 600
  ELSE IF c \in {"pauseCamera", "toggle-pause", "switch-shape"} THEN 800
  ELSE IF c = "screenshot" THEN 1500
  ELSE 1200

\* C6: a command is never emitted twice within its cooldown: any two frames in
\* a row that emit the same command (of process: togglePanels, pauseCamera,
\* screenshot, cycleShape; of update: toggle-pause, screenshot, switch-shape)
\* lie more than the command's cooldown apart.
C6_RateLimited ==
  \A c \in commandNames :
    history.prior[c] # -1 =>
      history.fired[c] - history.prior[c] > statedCooldown(c)

\* C6 witness: update emits toggle-pause for the second time, 300 ms more than
\* the cooldown after the first.
C6_Witness ==
  /\ engine = "update"
  /\ history.prior["toggle-pause"] # -1
  /\ history.fired["toggle-pause"] = now
  /\ now - history.prior["toggle-pause"] = statedCooldown("toggle-pause") + 300
  /\ result.fist

\* the triggering condition of a command of process holds on the new frame
triggered(c) ==
  \E i \in DOMAIN hands' :
    LET hand == hands'[i]
    IN  IF c = "pauseCamera" THEN hand.ext < FIST_THRESHOLD
        ELSE IF c = "screenshot"
        THEN hand.thumbExtended /\ hand.ext < FIST_THRESHOLD
        ELSE IF c = "cycleShape"
        THEN /\ hand.ext > PALM_OPEN_THRESHOLD
             /\ AbsGreater(handStates'[i - 1].swipeVelocity, SWIPE_VELOCITY)
        ELSE /\ hand.ext > PALM_OPEN_THRESHOLD
             /\ i - 1 \in DOMAIN handStates
             /\ handStates[i - 1].openPalmStart # 0
             /\ now' - handStates[i - 1].openPalmStart > 200

\* C7: in process, once a command has fired at time T, a frame later than T
\* plus the command's cooldown on which its triggering condition holds emits
\* the command again.
C7_FiresAfterCooldown ==
  [][engine = "process" =>
       \A c \in {"togglePanels", "pauseCamera", "screenshot", "cycleShape"} :
         (/\ history.fired[c] # -1
          /\ now' > history.fired[c] + statedCooldown(c)
          /\ triggered(c))
         => c \in emitted(events')
    ]_vars

\* C7 witness: process emits screenshot for the second time.
C7_Witness ==
  /\ engine = "process"
  /\ history.prior["screenshot"] # -1
  /\ history.fired["screenshot"] = now
  /\ events.global.screenshot

\* C11: on every frame of process with exactly two pinching hands, drawing is
\* suppressed (not active, not just started, no point, pressure 0) and no
\* single-hand rotation is emitted (scene.rotate.x = 0 and scene.rotate.y = 0).
C11_TwoHandsSuppressDrawing ==
  (engine = "process" /\ events.info.pinchHands = 2) =>
    /\ ~events.drawing.active /\ ~events.drawing.justStarted
    /\ events.drawing.point = Null
    /\ events.drawing.pressure = Num(0)
    /\ events.scene.rotate.x = 0 /\ events.scene.rotate.y = 0

\* C11 witness: a second frame in a row with two pinching hands, the second
\* hand having drawn alone before and moved since.
C11_Witness ==
  /\ engine = "process"
  /\ history.twoRun = 2
  /\ events.scene.activeHands = 2
  /\ handStates[1].lastPinchPosition # Null
  /\ handStates[1].lastPinchPosition # hands[2].tip

\* hand index i is the only pinching hand of the frame hs, the controller's
\* states after the frame being states
solePinching(states, hs, i) ==
  /\ i \in indicesOf(hs) /\ states[i].pinch
  /\ \A j \in indicesOf(hs) : states[j].pinch => j = i

\* C12 (the claim as stated): process emits a non-zero scene.rotate.x or
\* scene.rotate.y only on a frame whose only pinching hand was also the only
\* pinching hand of the frame before, and the rotation is the gain times the
\* movement of that hand's pinch point between the two frames.
C12_RotationFrameToFrame ==
  [][(/\ engine = "process"
      /\ (events'.scene.rotate.x # 0 \/ events'.scene.rotate.y # 0))
     => \E i \in indicesOf(hands') :
          /\ solePinching(handStates', hands', i)
          /\ solePinching(handStates, hands, i)
          /\ events'.scene.rotate.y = (hands'[i + 1].tip.x - hands[i + 1].tip.x) * (-220)
          /\ events'.scene.rotate.x = (hands'[i + 1].tip.y - hands[i + 1].tip.y) * (-180)
    ]_vars

\* C13 (the claim as stated): process keeps tracking state only for the hands
\* of the last frame: the state of a hand index is discarded on the first
\* frame that does not have it, so that the hand starts afresh when it returns.
C13_AbsentHandDiscarded ==
  engine = "process" => DOMAIN handStates \subseteq indicesOf(hands)

\* C14: in every result of update, every reported hand has a pinch point
\* exactly when its pinch flag is set.
C14_PinchPointIffPinch ==
  engine = "update" =>
    \A k \in DOMAIN result.hands :
      (result.hands[k].pinchPoint # Null) <=> result.hands[k].pinch

\* C14 witness: the frame on which a hand ends its pinch reports no pinch point.
C14_Witness ==
  /\ engine = "update"
  /\ Len(result.hands) = 1
  /\ \E j \in DOMAIN result.hands[1].events :
        result.hands[1].events[j] = "pinch-end"
  /\ ~result.hands[1].pinch
  /\ result.hands[1].pinchPoint = Null

\* what either filter holds: its timestamp, smoothed value and derivative
storedTime(f) == IF engine = "process" THEN f.lastTime ELSE f.prevTimestamp

smoothed(f) == IF engine = "process" THEN f.xPrev ELSE f.prevValue

derivativeOf(f) == IF engine = "process" THEN f.dxPrev ELSE f.prevDerivative

\* C15: for both implementations, the first call of filter on a fresh filter
\* returns the value it was given and records it as the smoothed value, whatever
\* the value and the timestamp.
C15_FirstCallReturnsInput ==
  [][~filter.seeded =>
       /\ filterOut' = [finite |-> TRUE, v |-> filterIn'.value]
       /\ filter'.seeded
       /\ smoothed(filter') = filterIn'.value
       /\ storedTime(filter') = filterIn'.timestamp
    ]_vars

\* C15 witness: the filter of scene3d.js has had its first call, at timestamp 0
\* with a value other than 0.
C15_Witness ==
  /\ engine = "update"
  /\ history.calls = 1
  /\ filterIn = [value |-> 4000, timestamp |-> 0]
  /\ filterOut = [finite |-> TRUE, v |-> 4000]

\* C16 (the claim as stated): for both implementations, a call of filter on a
\* seeded filter with a timestamp not later than the stored one returns the
\* previous smoothed value and leaves the filter as it was.
C16_StaleCallIgnored ==
  [][(filter.seeded /\ filterIn'.timestamp <= storedTime(filter)) =>
       /\ filterOut' = [finite |-> TRUE, v |-> smoothed(filter)]
       /\ filter' = filter
    ]_vars

\* C17: while every call so far passed the same value v at strictly increasing
\* timestamps, each call returns v, and the filter holds v as its smoothed value
\* and 0 as its derivative.
C17_ConstantInputIsFixedPoint ==
  (history.calls >= 1 /\ history.constant) =>
    /\ filterOut = [finite |-> TRUE, v |-> filterIn.value]
    /\ smoothed(filter) = filterIn.value
    /\ derivativeOf(filter) = 0

\* C17 witness: the filter of scene3d.js was called four times with 4000, at
\* 0, 100, 200 and 300.
C17_Witness ==
  /\ engine = "update"
  /\ history.calls = 4 /\ history.constant
  /\ filterIn = [value |-> 4000, timestamp |-> 300]
  /\ filterOut.v = 4000

\* C18: in process, between the frame on which a hand's posture becomes open
\* palm and the next frame on which it is not, at most one frame emits
\* quickHelp on account of that hand.
C18_QuickHelpOncePerHold ==
  engine = "process" =>
    \A i \in DOMAIN history.hold : history.hold[i].helps <= 1

\* C19: in process, once a single hand has shown an open palm on every frame
\* of a run of frames that spans more than HELP_HOLD_TIME, some frame of the
\* run has emitted quickHelp.
C19_HeldPalmOpensQuickHelp ==
  (/\ engine = "process"
   /\ Len(hands) = 1
   /\ 0 \in DOMAIN history.hold
   /\ history.hold[0].since # -1
   /\ history.hold[0].alone
   /\ now - history.hold[0].since > HELP_HOLD_TIME)
    => history.hold[0].helped

\* C20: in process, while one hand alone keeps showing an open palm, at most
\* one frame of the hold emits togglePanels.
C20_PanelToggleOncePerHold ==
  engine = "process" =>
    \A i \in DOMAIN history.hold :
      (history.hold[i].since # -1 /\ history.hold[i].alone)
        => history.hold[i].toggled <= 1

\* whether one of the hands hs shows a fist to the controller in use
fistShown(hs) ==
  \E k \in DOMAIN hs :
    IF engine = "process" THEN hs[k].ext < FIST_THRESHOLD ELSE hs[k].ext < 31

\* when the controller in use last emitted its pause command
pausedAt == IF engine = "process" THEN lastPauseToggle ELSE lastFistToggle

\* C21: in both apps, once a fist has paused processing, a frame that shows a
\* fist more than the pause cooldown (800 ms) after the pausing frame resumes
\* it.
C21_FistResumes ==
  [][(paused /\ fistShown(camera') /\ now' - pausedAt > 800) => ~paused']_vars

\* the hands of the next frame on which analyzeHand detects a double-pinch
doublePinches ==
  {i \in DOMAIN hands' :
     analyzeHand(handStates, i - 1, hands'[i], now').pendingDoublePinch}

\* C22 as stated: in process the bundle's drawing.tool is 'draw' or 'erase',
\* differs from the previous bundle's on a frame where a double-pinch is
\* detected, and equals it on every other frame.
C22_ToolFlipsOnDoublePinchFrame ==
  [][engine = "process" =>
       /\ events'.drawing.tool \in {"draw", "erase"}
       /\ (events'.drawing.tool # events.drawing.tool) <=> (doublePinches # {})
    ]_vars

\* C22 amended: in process the bundle's drawing.tool is 'draw' or 'erase' and
\* is flipped once for each double-pinch detected on the frame: it differs
\* from the previous bundle's exactly when the number of hands with a detected
\* double-pinch is odd.
C22_ToolFlipsPerDoublePinch ==
  [][engine = "process" =>
       /\ events'.drawing.tool \in {"draw", "erase"}
       /\ (events'.drawing.tool # events.drawing.tool)
            <=> (Cardinality(doublePinches) % 2 = 1)
    ]_vars

\* the last frame flipped the tool back to 'draw', after an earlier frame had
\* flipped it to 'erase'
C22_Witness ==
  /\ engine = "process"
  /\ now \in history.toggles
  /\ events.drawing.tool = "draw"

\* C23: process returns for a frame without hands, whatever earlier frames
\* left behind, the inactive bundle: no stroke, no point, pressure 0, no
\* rotation, scale 1, no translation, no active hand, no command.
C23_NoHandsInactiveBundle ==
  (engine = "process" /\ hands = <<>>) =>
    /\ events.drawing.active = FALSE
    /\ events.drawing.justStarted = FALSE
    /\ events.drawing.point = Null
    /\ events.drawing.pressure = Num(0)
    /\ events.scene.rotate = [x |-> 0, y |-> 0, z |-> ZeroAngle]
    /\ events.scene.scale = Num(1)
    /\ events.scene.translate = [x |-> Num(0), y |-> Num(0)]
    /\ events.scene.activeHands = 0
    /\ events.global = [togglePanels |-> FALSE, pauseCamera |-> FALSE,
                        screenshot |-> FALSE, quickHelp |-> FALSE,
                        cycleShape |-> "null"]

\* a frame without hands came while both hands were remembered as pinching,
\* after a two-hand session
C23_Witness ==
  /\ engine = "process"
  /\ hands = <<>>
  /\ now > 0
  /\ history.episodes >= 1
  /\ \A i \in {0, 1} : i \in DOMAIN handStates /\ handStates[i].pinch

\* the velocity estimate the controller in use holds for the one hand of the
\* session, and the time of the frame it last saw the hand on
velocityOf(states, statesU) ==
  IF engine = "process" THEN states[0].swipeVelocity ELSE statesU[1].state.velocity

seenBefore ==
  IF engine = "process" THEN 0 \in DOMAIN handStates ELSE Len(handStatesU) = 1

lastSeen ==
  IF engine = "process" THEN handStates[0].swipeLastTime
  ELSE handStatesU[1].state.lastTimestamp

\* C24: on a frame whose timestamp is not later than that of the hand's
\* previous frame the hand's velocity estimate keeps its value, and process
\* emits cycleShape on it only for a velocity it held before the frame.
C24_StaleFrameKeepsVelocity ==
  [][(seenBefore /\ now' <= lastSeen) =>
       /\ velocityOf(handStates', handStatesU') = velocityOf(handStates, handStatesU)
       /\ (engine = "process" /\ events'.global.cycleShape # "null")
            => AbsGreater(handStates[0].swipeVelocity, SWIPE_VELOCITY)
    ]_vars

\* C25: on a two-hand frame that finds the stored anchor distance at 0, the
\* scale either controller emits is 1.
C25_ZeroAnchorScaleIsOne ==
  [][/\ (/\ engine = "process"
         /\ twoHandSession # Null
         /\ twoHandSession.baseDistance = 0
         /\ twoHandSession' # Null)
          => events'.scene.scale = Num(1)
     /\ (/\ engine = "update"
         /\ twoHandCache # Null
         /\ twoHandCache.distance = 0
         /\ result'.twoHand # Null)
          => result'.twoHand.scale = Num(1)
    ]_vars

\* C26: in every result of update, a hand reported with 'pinch-start' has the
\* frame's raw index-tip position as its pinch point.
C26_PinchStartReseedsFilters ==
  engine = "update" =>
    \A k \in DOMAIN result.hands :
      (\E j \in DOMAIN result.hands[k].events :
         result.hands[k].events[j] = "pinch-start")
        => result.hands[k].pinchPoint = hands[k].tip

\* C27: in update, when a hand with the same handedness label is pinching on
\* two consecutive frames, the second frame does not report 'pinch-start'.
C27_HeldPinchStartsOnce ==
  [][(/\ engine = "update"
      /\ Len(hands) = 1 /\ Len(hands') = 1
      /\ hands'[1].handedness = hands[1].handedness
      /\ result.hands[1].pinch
      /\ result'.hands[1].pinch)
       => \A j \in DOMAIN result'.hands[1].events :
            result'.hands[1].events[j] # "pinch-start"
    ]_vars

\* C28: in update, when both hands' pinch points and orientations are the same
\* on two consecutive two-hand-pinch frames, the second frame's twoHand is the
\* identity: scale 1, no translation, rotateZ 0.
C28_TwoHandDeltasFrameToFrame ==
  [][(/\ engine = "update"
      /\ result.twoHand # Null
      /\ result'.twoHand # Null
      /\ \A k \in {1, 2} :
           /\ result'.hands[k].pinchPoint = result.hands[k].pinchPoint
           /\ result'.hands[k].orientation = result.hands[k].orientation)
       => /\ result'.twoHand.scale = Num(1)
          /\ result'.twoHand.translate = [x |-> Num(0), y |-> Num(0)]
          /\ result'.twoHand.rotateZ = 0
    ]_vars

\* C29: no hand state of either controller is both an open palm and a fist,
\* and a hand state of process has thumbsUp only together with isFist.
C29_PosturesExclusive ==
  /\ engine = "process" =>
       \A i \in DOMAIN handStates :
         /\ ~(handStates[i].isOpenPalm /\ handStates[i].isFist)
         /\ handStates[i].thumbsUp => handStates[i].isFist
  /\ engine = "update" =>
       \A k \in DOMAIN handStatesU :
         ~(handStatesU[k].state.isOpenPalm /\ handStatesU[k].state.isFist)

\* a hand of process raises its thumb over an open palm: no thumbsUp
C29_Witness ==
  /\ engine = "process"
  /\ Len(hands) = 1
  /\ hands[1].thumbExtended
  /\ handStates[0].isOpenPalm
  /\ ~handStates[0].isFist
  /\ ~handStates[0].thumbsUp

\* C30: the drawing.pressure process returns lies in [0, 1], is 0 when
\* drawing.active is false, and is 0 when the pinching hand's ratio is at or
\* above PINCH_ON.
C30_PressureInRange ==
  engine = "process" =>
    /\ events.drawing.pressure.d > 0
    /\ 0 <= events.drawing.pressure.n
    /\ events.drawing.pressure.n <= events.drawing.pressure.d
    /\ ~events.drawing.active => events.drawing.pressure = Num(0)
    /\ \A k \in DOMAIN hands :
         (/\ events.drawing.active
          /\ handStates[k - 1].pinch
          /\ hands[k].ratio >= PINCH_ON)
           => events.drawing.pressure = Num(0)

\* a stroke goes on with the pinch inside the hysteresis band, at no pressure
C30_Witness ==
  /\ engine = "process"
  /\ Len(hands) = 1
  /\ events.drawing.active
  /\ ~events.drawing.justStarted
  /\ hands[1].ratio > PINCH_ON
  /\ events.drawing.pressure = Num(0)

\* C31: after every call of update the keys of handStates are exactly the
\* identities of the hands of the frame, one state for each, and the states
\* are no more than the frame's hands.
C31_StatesMatchFrame ==
  engine = "update" =>
    /\ {handStatesU[k].id : k \in DOMAIN handStatesU}
         = {handId(hands[j]) : j \in DOMAIN hands}
    /\ \A k, l \in DOMAIN handStatesU :
         handStatesU[k].id = handStatesU[l].id => k = l
    /\ Len(handStatesU) <= Len(hands)

\* one of two pinching hands has left: its state is gone in the same call
C31_Witness ==
  /\ engine = "update"
  /\ history.episodes >= 1
  /\ Len(hands) = 1
  /\ Len(handStatesU) = 1

\* the strokes of paths and redoStack together, with their multiplicities
strokesOf(d) ==
  LET all == d.paths \o d.redoStack
  IN  [s \in {all[i] : i \in DOMAIN all} |->
         Cardinality({i \in DOMAIN all : all[i] = s})]

\* C32: on either canvas, undo() on non-empty paths followed at once by redo()
\* leaves paths and redoStack exactly as they were before the undo; undo() on
\* empty paths and redo() on an empty redoStack change nothing; and undo and
\* redo keep the strokes of paths and redoStack together, with multiplicity.
C32_UndoRedoRoundTrip ==
  LET ops == history.ops
      n == Len(ops)
  IN  /\ (/\ n = 2
          /\ ops[1].op = "undo" /\ ops[2].op = "redo"
          /\ Len(ops[1].before.paths) > 0)
         => /\ canvas.paths = ops[1].before.paths
            /\ canvas.redoStack = ops[1].before.redoStack
      /\ (n >= 1 /\ ops[n].op = "undo" /\ Len(ops[n].before.paths) = 0)
         => canvas = ops[n].before
      /\ (n >= 1 /\ ops[n].op = "redo" /\ Len(ops[n].before.redoStack) = 0)
         => canvas = ops[n].before
      /\ (n >= 1 /\ ops[n].op \in {"undo", "redo"})
         => strokesOf(canvas) = strokesOf(ops[n].before)

C32_Witness ==
  /\ Len(history.ops) = 2
  /\ history.ops[1].op = "undo" /\ history.ops[2].op = "redo"
  /\ Len(history.ops[1].before.paths) = 1
  /\ Len(history.ops[1].before.redoStack) = 1
  /\ canvas.paths = history.ops[1].before.paths

\* C33: on either canvas, redoStack is empty after startStroke and paths is as
\* it was before; after clear() both paths and redoStack are empty.
C33_StartStrokeAndClear ==
  LET ops == history.ops
      n == Len(ops)
  IN  /\ (n >= 1 /\ ops[n].op = "startStroke")
         => /\ canvas.redoStack = <<>>
            /\ canvas.paths = ops[n].before.paths
      /\ (n >= 1 /\ ops[n].op = "clear")
         => canvas.paths = <<>> /\ canvas.redoStack = <<>>

C33_Witness ==
  /\ Len(history.ops) = 2
  /\ history.ops[2].op = "startStroke"
  /\ Len(history.ops[2].before.redoStack) = 1
  /\ canvas.redoStack = <<>>
  /\ canvas.currentStroke # Null

\* C34: on either canvas, endStroke appends the stroke in progress to paths
\* exactly when it has more than one point, leaves no stroke in progress, and
\* changes nothing when none was in progress; addPoint or extendStroke with
\* no stroke in progress changes nothing; paths grows by at most one stroke
\* per endStroke and holds no stroke of fewer than two points.
C34_EndStrokeCommits ==
  LET ops == history.ops
      n == Len(ops)
  IN  /\ (n >= 1 /\ ops[n].op = "endStroke")
         => LET before == ops[n].before
            IN  /\ before.currentStroke = Null => canvas = before
                /\ before.currentStroke # Null
                   => /\ canvas.currentStroke = Null
                      /\ canvas.paths =
                           IF Len(before.currentStroke.points) > 1
                           THEN Append(before.paths, before.currentStroke)
                           ELSE before.paths
                /\ Len(canvas.paths) <= Len(before.paths) + 1
      /\ (n >= 1 /\ ops[n].op = "addPoint" /\ ops[n].before.currentStroke = Null)
         => canvas = ops[n].before
      /\ \A i \in DOMAIN canvas.paths : Len(canvas.paths[i].points) >= 2

C34_Witness ==
  /\ Len(history.ops) = 2
  /\ history.ops[1].op = "endStroke" /\ history.ops[2].op = "endStroke"
  /\ history.ops[1].before.currentStroke # Null
  /\ Len(history.ops[1].before.currentStroke.points) = 1
  /\ Len(history.ops[1].before.paths) = 1
  /\ canvas.paths = history.ops[1].before.paths

\* min <= q <= max
within(q, min, max) == ~isNaN(q) /\ ~Less(q, min) /\ ~Less(max, q)

\* C35: after any applyScale and resetPose calls, with any factors, scaleFactor
\* is within [0.35, 2.5]; after any scale and resetPose calls every component
\* of targetScale is within [0.4, 4].
C35_ScaleWithinLimits ==
  /\ engine = "update" => within(sceneScale, Div(7, 20), Div(5, 2))
  /\ engine = "process" => within(sceneScale, Div(2, 5), Num(4))

\* C36: in process, a frame with a fist hand emits pauseCamera when
\* pauseCamera has never been emitted before, and a frame with a thumbs-up
\* hand emits screenshot when screenshot has never been emitted before,
\* whatever the timestamp of the frame.
C36_FirstFiringAtAnyTime ==
  engine = "process" =>
    \A i \in indicesOf(hands) :
      /\ (handStates[i].isFist /\ ~events.global.pauseCamera)
         => history.fired["pauseCamera"] # -1
      /\ (handStates[i].thumbsUp /\ ~events.global.screenshot)
         => history.fired["screenshot"] # -1

\* C37: in process, a frame whose only hand is thumbs-up does not set
\* global.pauseCamera.
C37_ThumbsUpNeverPauses ==
  (engine = "process" /\ Len(hands) = 1 /\ handStates[0].thumbsUp)
    => ~events.global.pauseCamera

\* the ids of the strokes the canvas d still holds
heldStrokes(d) ==
  {d.paths[i].id : i \in DOMAIN d.paths}
    \cup (IF d.currentStroke = Null THEN {} ELSE {d.currentStroke.id})

\* C38: in the process-based app, startStroke is not invoked while a stroke
\* is in progress, so that every stroke ever started is still the stroke in
\* progress or a committed path; a frame on which no hand pinches leaves no
\* stroke in progress; and a stroke no longer in progress is in paths.
C38_StrokesStartedAreClosed ==
  engine = "process" =>
    /\ \A id \in 1..canvas.made : id \in heldStrokes(canvas)
    /\ events.info.pinchHands = 0 => canvas.currentStroke = Null

\* C39: in the event-emitting HandTracker, no 'results' event is emitted
\* between the return of stop() and the next start(), and at most one frame
\* callback is pending at any time.
C39_QuietAfterStop ==
  engine = "update" =>
    /\ tracker.late = 0
    /\ Cardinality(tracker.pending) <= 1

\* the hand states update leaves when a controller without hand states is
\* handed the frame hs at timestamp
statesFromNone(hs, timestamp) ==
  LET acc == updateLoop([map |-> <<>>, hands |-> <<>>, ids |-> <<>>],
                        hs, 1, timestamp)
  IN  removeStale(acc.map, acc.ids)

\* C40: in the update-based app, when the last frame with a hand showed an
\* open palm, the frames since then had no hand, and the next frame shows an
\* open palm, that frame emits toggle-ui, its hand states are those of a
\* hand never seen before, and no two-hand anchor is kept.
C40_GapIsDeparture ==
  [][(/\ engine = "update" /\ ~paused
      /\ camera = <<>> /\ result.openPalm
      /\ Len(camera') = 1 /\ camera'[1].ext > 56)
     => /\ \E k \in DOMAIN result'.commands :
             result'.commands[k].type = "toggle-ui"
        /\ handStatesU' = statesFromNone(camera', now')
        /\ twoHandCache' = Null]_vars

====
